---- MODULE Spec2Model ----
(***************************************************************************)
(* A model of the smartSpend backend (backend/app): the Expense, Category  *)
(* and Budget tables, the handlers that create expenses (chat message,     *)
(* receipt upload, CSV import, quick expense), and the analytic functions  *)
(* of nlp.py and crud.py (expense extraction, category classification,     *)
(* anomaly detection, forecasting, budget optimisation).                   *)
(*                                                                         *)
(* Money is counted in hundredths of the currency unit (Cents = 100 per    *)
(* unit), so round(x, 2) of the code is rounding to an integer here.       *)
(* A text is a sequence of one-character strings, so lower(), "kw in t"    *)
(* and the regular expressions are computed on the characters.  An         *)
(* optional value (Python's None) is the empty sequence, a present value x *)
(* the sequence <<x>>.  The spaCy model, the trained classifier, dateutil  *)
(* and the fitted forecasting models are libraries outside the repository: *)
(* their outputs are inputs of the actions, drawn from small sets.         *)
(***************************************************************************)
EXTENDS Integers, Sequences, FiniteSets, TLC

VARIABLES
  now,             \* the clock read by utcnow()/today(): [y, m, d, t]
  nlp_spacy,       \* TRUE when the spaCy model was loaded at import (nlp.py:16)
  category_model,  \* TRUE when the category classifier was loaded (nlp.py:23)
  expenses,        \* the Expense table: a bag of rows (row :> number of copies)
  categories,      \* the Category table: the set of category names
  budgets,         \* the Budget table: a set of rows [user, category, monthly_limit]
  users,           \* the User table: a set of rows [id, monthly_budget]
  summaries,       \* the MonthlySummary table: rows [user, year, month, total_spent]
  chat_history,    \* the ChatHistory table: rows [user, message, response]
  ret,             \* what the last call returned (or that it raised)
  calls,           \* the helper functions the last call invoked, in order
  inflight         \* the get_monthly_summary calls that have started and not returned

vars == <<now, nlp_spacy, category_model, expenses, categories, budgets, users,
          summaries, chat_history, ret, calls, inflight>>
\* What is fixed when the process starts
config == <<now, nlp_spacy, category_model>>

-----------------------------------------------------------------------------
(* Optional values *)

None == <<>>
Some(x) == <<x>>
IsNone(o) == Len(o) = 0
Val(o) == o[1]

-----------------------------------------------------------------------------
(* Characters and strings *)

UpperChars == <<"A","B","C","D","E","F","G","H","I","J","K","L","M",
                "N","O","P","Q","R","S","T","U","V","W","X","Y","Z">>
LowerChars == <<"a","b","c","d","e","f","g","h","i","j","k","l","m",
                "n","o","p","q","r","s","t","u","v","w","x","y","z">>
DigitChars == <<"0","1","2","3","4","5","6","7","8","9">>

IsUpper(c) == \E i \in 1..26 : UpperChars[i] = c
IsLowerLetter(c) == \E i \in 1..26 : LowerChars[i] = c
IsDigit(c) == \E i \in 1..10 : DigitChars[i] = c
DigitVal(c) == (CHOOSE i \in 1..10 : DigitChars[i] = c) - 1
IsSpace(c) == c = " "
\* \w of the regular expressions: a letter, a digit or the underscore
IsWordChar(c) == IsUpper(c) \/ IsLowerLetter(c) \/ IsDigit(c) \/ c = "_"

\* str.lower()
LowerChar(c) == IF IsUpper(c) THEN LowerChars[CHOOSE i \in 1..26 : UpperChars[i] = c] ELSE c
Lower(t) == [i \in 1..Len(t) |-> LowerChar(t[i])]

\* "k in t" of Python: k occurs in t as a contiguous substring
Contains(t, k) ==
  \E i \in 0..(Len(t) - Len(k)) : \A j \in 1..Len(k) : t[i + j] = k[j]

\* str.replace(c, ""): t without the characters of the set cs
RECURSIVE Without(_, _)
Without(t, cs) ==
  IF t = <<>> THEN <<>>
  ELSE IF Head(t) \in cs THEN Without(Tail(t), cs)
       ELSE <<Head(t)>> \o Without(Tail(t), cs)

\* str.strip(): t without its leading and trailing blanks
RECURSIVE LStrip(_)
LStrip(t) == IF t # <<>> /\ IsSpace(Head(t)) THEN LStrip(Tail(t)) ELSE t
RECURSIVE RStrip(_)
RStrip(t) == IF t # <<>> /\ IsSpace(t[Len(t)]) THEN RStrip(SubSeq(t, 1, Len(t) - 1)) ELSE t
Strip(t) == RStrip(LStrip(t))

-----------------------------------------------------------------------------
(* Numbers *)

\* Hundredths per currency unit: the resolution of round(x, 2)
Cents == 100

\* The value, in hundredths, of a run of decimal digits
RECURSIVE DigitsValue(_)
DigitsValue(ds) ==
  IF ds = <<>> THEN 0 ELSE 10 * DigitsValue(SubSeq(ds, 1, Len(ds) - 1)) + DigitVal(ds[Len(ds)])

AllDigits(ds) == \A i \in 1..Len(ds) : IsDigit(ds[i])

\* The first two fractional digits as hundredths (the sample inputs carry no more)
FractionCents(fs) ==
  IF Len(fs) = 0 THEN 0
  ELSE IF Len(fs) = 1 THEN 10 * DigitVal(fs[1])
  ELSE 10 * DigitVal(fs[1]) + DigitVal(fs[2])

DotAt(s) == IF \E i \in 1..Len(s) : s[i] = "." THEN CHOOSE i \in 1..Len(s) : s[i] = "." /\ \A j \in 1..(i-1) : s[j] # "." ELSE 0

\* float(s) of an unsigned decimal literal: digits, optionally one dot, digits,
\* with at least one digit; None when float() raises ValueError
UnsignedFloat(s) ==
  LET d == DotAt(s)
      ip == IF d = 0 THEN s ELSE SubSeq(s, 1, d - 1)
      fp == IF d = 0 THEN <<>> ELSE SubSeq(s, d + 1, Len(s))
  IN IF AllDigits(ip) /\ AllDigits(fp) /\ Len(ip) + Len(fp) > 0
     THEN Some(Cents * DigitsValue(ip) + FractionCents(fp))
     ELSE None

\* float(s): an optional sign before an unsigned literal
ParseFloat(s) ==
  IF s # <<>> /\ Head(s) \in {"-", "+"}
  THEN LET u == UnsignedFloat(Tail(s))
       IN IF IsNone(u) \/ (Tail(s) # <<>> /\ Head(Tail(s)) \in {"-", "+"}) THEN None
          ELSE IF Head(s) = "-" THEN Some(0 - Val(u)) ELSE u
  ELSE UnsignedFloat(s)

\* round(num / den) to the nearest integer, ties to the even one (Python's round)
RoundDiv(num, den) ==
  LET q == num \div den
      r == num % den
  IN IF 2 * r < den THEN q
     ELSE IF 2 * r > den THEN q + 1
     ELSE IF q % 2 = 0 THEN q ELSE q + 1

Min(a, b) == IF a <= b THEN a ELSE b
Max(a, b) == IF a >= b THEN a ELSE b

RECURSIVE SumSeq(_)
SumSeq(s) == IF s = <<>> THEN 0 ELSE Head(s) + SumSeq(Tail(s))

-----------------------------------------------------------------------------
(* Bags of rows *)

EmptyBag == <<>>
BagAdd(b, row) ==
  IF row \in DOMAIN b THEN [b EXCEPT ![row] = @ + 1] ELSE (row :> 1) @@ b
RECURSIVE BagSizeOver(_, _)
BagSizeOver(b, rows) ==
  IF rows = {} THEN 0
  ELSE LET r == CHOOSE x \in rows : TRUE IN b[r] + BagSizeOver(b, rows \ {r})
BagSize(b) == BagSizeOver(b, DOMAIN b)
\* SELECT func.sum(amount) over the rows of b satisfying the filter set
RECURSIVE SumAmounts(_, _)
SumAmounts(b, rows) ==
  IF rows = {} THEN 0
  ELSE LET r == CHOOSE x \in rows : TRUE
       IN b[r] * r.amount + SumAmounts(b, rows \ {r})

-----------------------------------------------------------------------------
(* Dates: [y, m, d, t], t the time of day (0 is midnight) *)

IsLeap(y) == y % 4 = 0 /\ (y % 100 # 0 \/ y % 400 = 0)
DaysInMonth(y, m) ==
  IF m = 2 THEN (IF IsLeap(y) THEN 29 ELSE 28)
  ELSE IF m \in {4, 6, 9, 11} THEN 30 ELSE 31

\* d - timedelta(days=1)
PrevDay(dt) ==
  IF dt.d > 1 THEN [dt EXCEPT !.d = @ - 1]
  ELSE IF dt.m > 1 THEN [dt EXCEPT !.m = @ - 1, !.d = DaysInMonth(dt.y, dt.m - 1)]
  ELSE [dt EXCEPT !.y = @ - 1, !.m = 12, !.d = 31]

\* d - timedelta(days=n)
RECURSIVE MinusDays(_, _)
MinusDays(dt, n) == IF n = 0 THEN dt ELSE MinusDays(PrevDay(dt), n - 1)

\* Datetime comparison a < b and a <= b
DateLess(a, b) ==
  \/ a.y < b.y
  \/ a.y = b.y /\ a.m < b.m
  \/ a.y = b.y /\ a.m = b.m /\ a.d < b.d
  \/ a.y = b.y /\ a.m = b.m /\ a.d = b.d /\ a.t < b.t
DateLeq(a, b) == a = b \/ DateLess(a, b)

-----------------------------------------------------------------------------
(* nlp.py: category classification *)

FoodKeywords ==
  <<<<"f","o","o","d">>,
    <<"l","u","n","c","h">>,
    <<"c","o","f","f","e","e">>,
    <<"r","e","s","t","a","u","r","a","n","t">>,
    <<"g","r","o","c","e","r">>,
    <<"m","e","a","l">>,
    <<"s","w","i","g","g","y">>,
    <<"z","o","m","a","t","o">>>>
TransportKeywords ==
  <<<<"b","u","s">>,
    <<"t","a","x","i">>,
    <<"u","b","e","r">>,
    <<"t","r","a","n","s","p","o","r","t">>,
    <<"m","e","t","r","o">>,
    <<"t","r","a","i","n">>,
    <<"o","l","a">>>>
ShoppingKeywords ==
  <<<<"s","h","o","p","p","i","n","g">>,
    <<"c","l","o","t","h","e","s">>,
    <<"m","a","l","l">>,
    <<"s","t","o","r","e">>,
    <<"a","m","a","z","o","n">>,
    <<"f","l","i","p","k","a","r","t">>,
    <<"m","y","n","t","r","a">>>>
BillsKeywords ==
  <<<<"b","i","l","l">>,
    <<"e","l","e","c","t","r","i","c","i","t","y">>,
    <<"w","a","t","e","r">>,
    <<"i","n","t","e","r","n","e","t">>,
    <<"r","e","n","t">>,
    <<"p","h","o","n","e">>>>
EntertainmentKeywords ==
  <<<<"m","o","v","i","e">>,
    <<"c","i","n","e","m","a">>,
    <<"g","a","m","e">>,
    <<"e","n","t","e","r","t","a","i","n","m","e","n","t">>,
    <<"n","e","t","f","l","i","x">>>>
BudgetQueryKeywords ==
  <<<<"h","o","w"," ","m","u","c","h">>,
    <<"s","u","m","m","a","r","y">>,
    <<"t","o","t","a","l"," ","s","p","e","n","d","i","n","g">>,
    <<"b","u","d","g","e","t">>,
    <<"r","e","m","a","i","n","i","n","g">>>>
\* any(word in t for word in group)
AnyKeyword(t, group) == \E i \in 1..Len(group) : Contains(t, group[i])

\* A keyword fallback that asks for the Transport group first
KeywordCategory_TransportFirst(text) ==
  LET t == Lower(text)
  IN IF AnyKeyword(t, TransportKeywords) THEN "Transport"
     ELSE IF AnyKeyword(t, FoodKeywords) THEN "Food"
     ELSE IF AnyKeyword(t, ShoppingKeywords) THEN "Shopping"
     ELSE IF AnyKeyword(t, BillsKeywords) THEN "Bills"
     ELSE IF AnyKeyword(t, EntertainmentKeywords) THEN "Entertainment"
     ELSE "Other"

\* nlp.py:159-165, the keyword fallback of classify_category
KeywordCategory(text) ==
  LET t == Lower(text)
  IN IF AnyKeyword(t, FoodKeywords) THEN "Food"
     ELSE IF AnyKeyword(t, TransportKeywords) THEN "Transport"
     ELSE IF AnyKeyword(t, ShoppingKeywords) THEN "Shopping"
     ELSE IF AnyKeyword(t, BillsKeywords) THEN "Bills"
     ELSE IF AnyKeyword(t, EntertainmentKeywords) THEN "Entertainment"
     ELSE "Other"

\* classify_category(text).  ml is what category_model.predict does on this
\* text: [raises |-> TRUE] or [raises |-> FALSE, label |-> the predicted label].
\* The result is [raised, value]: the function has no path that raises.
classify_category(text, ml) ==
  IF text = <<>> THEN [raised |-> FALSE, value |-> "Other"]
  ELSE IF category_model /\ ~ml.raises THEN [raised |-> FALSE, value |-> ml.label]
  ELSE [raised |-> FALSE, value |-> KeywordCategory(text)]

-----------------------------------------------------------------------------
(* nlp.py: entity extraction.  doc is what nlp_spacy(text) does on this     *)
(* text: [raises |-> TRUE] or [raises |-> FALSE, ents |-> the entities], an  *)
(* entity being [label, text, parse]; parse is what dateutil's parser does   *)
(* on the entity's text: None when it raises, else Some(datetime).           *)

\* re.sub(r'[^\d.]', '', s)
RECURSIVE DigitsAndDots(_)
DigitsAndDots(s) ==
  IF s = <<>> THEN <<>>
  ELSE IF IsDigit(Head(s)) \/ Head(s) = "." THEN <<Head(s)>> \o DigitsAndDots(Tail(s))
       ELSE DigitsAndDots(Tail(s))

\* The loop of extract_amount over doc.ents (nlp.py:96-101): the first MONEY
\* entity whose cleaned text float() accepts; None when the loop falls through
RECURSIVE FirstMoney(_)
FirstMoney(ents) ==
  IF ents = <<>> THEN None
  ELSE LET e == Head(ents)
           v == ParseFloat(DigitsAndDots(e.text))
       IN IF e.label = "MONEY" /\ ~IsNone(v) THEN v ELSE FirstMoney(Tail(ents))

\* The end of the longest run of characters satisfying the class from position i
\* (i - 1 when text[i] is not in the class)
RECURSIVE RunEnd(_, _, _)
RunEnd(text, i, cls) ==
  IF i <= Len(text) /\ text[i] \in cls THEN RunEnd(text, i + 1, cls) ELSE i - 1

CharsOf(text) == {text[i] : i \in 1..Len(text)}
DigitSet == {DigitChars[i] : i \in 1..10}

\* re.search(r"(\d[\d,]*\.?\d*)", text).group(1): None when nothing matches
AmountMatch(text) ==
  IF \E i \in 1..Len(text) : IsDigit(text[i])
  THEN LET p == CHOOSE i \in 1..Len(text) : IsDigit(text[i]) /\ \A j \in 1..(i - 1) : ~IsDigit(text[j])
           e1 == RunEnd(text, p + 1, DigitSet \cup {","})
           e2 == IF e1 + 1 <= Len(text) /\ text[e1 + 1] = "." THEN e1 + 1 ELSE e1
           e3 == RunEnd(text, e2 + 1, DigitSet)
       IN Some(SubSeq(text, p, e3))
  ELSE None

\* extract_amount(text): [raised, value]; raised when nlp_spacy(text) raises
extract_amount(text, doc) ==
  IF text = <<>> THEN [raised |-> FALSE, value |-> None]
  ELSE IF nlp_spacy /\ doc.raises THEN [raised |-> TRUE, value |-> None]
  ELSE LET money == IF nlp_spacy THEN FirstMoney(doc.ents) ELSE None
           m == AmountMatch(text)
       IN IF ~IsNone(money) THEN [raised |-> FALSE, value |-> money]
          ELSE IF ~IsNone(m) THEN [raised |-> FALSE, value |-> ParseFloat(Without(Val(m), {","}))]
          ELSE [raised |-> FALSE, value |-> None]

\* 2000 <= parsed.year <= today.year + 1
YearAccepted(dt, today) == 2000 <= dt.y /\ dt.y <= today.y + 1

\* The loop of extract_date over doc.ents (nlp.py:122-126): [raised, value];
\* raised when parser.parse raises on a DATE entity
RECURSIVE FirstDate(_, _)
FirstDate(ents, today) ==
  IF ents = <<>> THEN [raised |-> FALSE, value |-> None]
  ELSE LET e == Head(ents)
       IN IF e.label = "DATE"
          THEN IF IsNone(e.parse) THEN [raised |-> TRUE, value |-> None]
               ELSE IF YearAccepted(Val(e.parse), today) THEN [raised |-> FALSE, value |-> e.parse]
               ELSE FirstDate(Tail(ents), today)
          ELSE FirstDate(Tail(ents), today)

\* re.search(r"(\d{1,2}[/-]\d{1,2}(?:[/-]\d{2,4})?)", txt) finds a match
HasNumericDate(txt) ==
  \E i \in 1..Len(txt) :
    /\ IsDigit(txt[i])
    /\ \/ i + 2 <= Len(txt) /\ txt[i + 1] \in {"/", "-"} /\ IsDigit(txt[i + 2])
       \/ i + 3 <= Len(txt) /\ IsDigit(txt[i + 1]) /\ txt[i + 2] \in {"/", "-"} /\ IsDigit(txt[i + 3])

\* extract_date with the date entities consulted before the keywords
extract_date_EntitiesFirst(text, doc, reparse) ==
  LET txt == Strip(Lower(text))
      today == now
      fromEnts == IF nlp_spacy /\ ~doc.raises THEN FirstDate(doc.ents, today)
                  ELSE [raised |-> nlp_spacy, value |-> None]
  IN IF ~fromEnts.raised /\ ~IsNone(fromEnts.value) THEN fromEnts.value
     ELSE IF Contains(txt, <<"y","e","s","t","e","r","d","a","y">>) THEN Some(MinusDays(today, 1))
     ELSE IF Contains(txt, <<"t","o","d","a","y">>) THEN Some(today)
     ELSE IF Contains(txt, <<"l","a","s","t"," ","w","e","e","k">>) THEN Some(MinusDays(today, 7))
     ELSE IF fromEnts.raised THEN None
     ELSE IF HasNumericDate(txt) /\ ~IsNone(reparse) /\ YearAccepted(Val(reparse), today) THEN reparse
     ELSE None

\* extract_date(text): an optional datetime; the function has no path that
\* raises (nlp.py:119-135 runs under try/except Exception).  reparse is what
\* dateutil's parser does on the regular expression's match.
extract_date(text, doc, reparse) ==
  LET txt == Strip(Lower(text))
      today == now
      fromEnts == IF nlp_spacy /\ ~doc.raises THEN FirstDate(doc.ents, today)
                  ELSE [raised |-> nlp_spacy, value |-> None]
  IN IF Contains(txt, <<"y","e","s","t","e","r","d","a","y">>) THEN Some(MinusDays(today, 1))
     ELSE IF Contains(txt, <<"t","o","d","a","y">>) THEN Some(today)
     ELSE IF Contains(txt, <<"l","a","s","t"," ","w","e","e","k">>) THEN Some(MinusDays(today, 7))
     ELSE IF fromEnts.raised THEN None
     ELSE IF ~IsNone(fromEnts.value) THEN fromEnts.value
     ELSE IF HasNumericDate(txt) /\ ~IsNone(reparse) /\ YearAccepted(Val(reparse), today) THEN reparse
     ELSE None

\* The loop of extract_merchant over doc.ents (nlp.py:142-144)
RECURSIVE FirstOrgOrPerson(_)
FirstOrgOrPerson(ents) ==
  IF ents = <<>> THEN None
  ELSE IF Head(ents).label \in {"ORG", "PERSON"} THEN Some(Strip(Head(ents).text))
       ELSE FirstOrgOrPerson(Tail(ents))

StartsWithAt(text, i, w) ==
  i + Len(w) - 1 <= Len(text) /\ \A j \in 1..Len(w) : text[i + j - 1] = w[j]

MerchantChars ==
  {UpperChars[i] : i \in 1..26} \cup {LowerChars[i] : i \in 1..26} \cup DigitSet
    \cup {"_", " ", "'", "-"}

\* Where group(2) of r"\b(at|from|in)\s+([A-Z][\w\s'-]+)" ends when the match
\* starts at i with the word w; 0 when there is no such match
MerchantEndAt(text, i, w) ==
  LET s == i + Len(w)
      e == RunEnd(text, s, {" "})
  IN IF /\ (i = 1 \/ ~IsWordChar(text[i - 1]))
        /\ StartsWithAt(text, i, w)
        /\ e >= s
        /\ e + 2 <= Len(text)
        /\ IsUpper(text[e + 1])
        /\ text[e + 2] \in MerchantChars
     THEN RunEnd(text, e + 2, MerchantChars)
     ELSE 0

MerchantWords == {<<"a","t">>, <<"f","r","o","m">>, <<"i","n">>}

\* re.search(...).group(2).strip(): None when nothing matches
MerchantMatch(text) ==
  LET hits == {i \in 1..Len(text) : \E w \in MerchantWords : MerchantEndAt(text, i, w) > 0}
  IN IF hits = {} THEN None
     ELSE LET i == CHOOSE x \in hits : \A z \in hits : x <= z
              w == CHOOSE x \in MerchantWords : MerchantEndAt(text, i, x) > 0
              s == RunEnd(text, i + Len(w), {" "}) + 1
          IN Some(Strip(SubSeq(text, s, MerchantEndAt(text, i, w))))

\* extract_merchant(text): [raised, value]; raised when nlp_spacy(text) raises
extract_merchant(text, doc) ==
  IF text = <<>> THEN [raised |-> FALSE, value |-> None]
  ELSE IF nlp_spacy /\ doc.raises THEN [raised |-> TRUE, value |-> None]
  ELSE LET ent == IF nlp_spacy THEN FirstOrgOrPerson(doc.ents) ELSE None
       IN IF ~IsNone(ent) THEN [raised |-> FALSE, value |-> ent]
          ELSE [raised |-> FALSE, value |-> MerchantMatch(text)]

\* A parser that takes a falsy amount (0) for a missing one
parse_expense_from_text_FalsyAmount(text, doc, ml, reparse) ==
  LET amount == extract_amount(text, doc)
      category == classify_category(text, ml)
      date == extract_date(text, doc, reparse)
      merchant == extract_merchant(text, doc)
  IN IF amount.raised
     THEN [raised |-> TRUE, value |-> None, calls |-> <<"extract_amount">>]
     ELSE IF IsNone(amount.value) \/ amount.value = Some(0)
     THEN [raised |-> FALSE, value |-> None, calls |-> <<"extract_amount">>]
     ELSE IF merchant.raised
     THEN [raised |-> TRUE, value |-> None,
           calls |-> <<"extract_amount", "classify_category", "extract_date", "extract_merchant">>]
     ELSE [raised |-> FALSE,
           value |-> Some([amount |-> Val(amount.value),
                           category |-> category.value,
                           date |-> IF IsNone(date) THEN now ELSE Val(date),
                           merchant |-> merchant.value]),
           calls |-> <<"extract_amount", "classify_category", "extract_date", "extract_merchant">>]

\* parse_expense_from_text(text): [raised, value, calls]; value is None or
\* Some([amount, category, date, merchant]); calls lists the helpers invoked
parse_expense_from_text(text, doc, ml, reparse) ==
  LET amount == extract_amount(text, doc)
      category == classify_category(text, ml)
      date == extract_date(text, doc, reparse)
      merchant == extract_merchant(text, doc)
  IN IF amount.raised
     THEN [raised |-> TRUE, value |-> None, calls |-> <<"extract_amount">>]
     ELSE IF IsNone(amount.value)
     THEN [raised |-> FALSE, value |-> None, calls |-> <<"extract_amount">>]
     ELSE IF merchant.raised
     THEN [raised |-> TRUE, value |-> None,
           calls |-> <<"extract_amount", "classify_category", "extract_date", "extract_merchant">>]
     ELSE [raised |-> FALSE,
           value |-> Some([amount |-> Val(amount.value),
                           category |-> category.value,
                           date |-> IF IsNone(date) THEN now ELSE Val(date),
                           merchant |-> merchant.value]),
           calls |-> <<"extract_amount", "classify_category", "extract_date", "extract_merchant">>]

-----------------------------------------------------------------------------
(* nlp.py: anomaly detection *)

\* The rows of a bag that a query's filter selects
ExpensesOf(b, user, category) ==
  {r \in DOMAIN b : r.user = user /\ r.category = category}

\* [float(e[0]) for e in expenses], in ascending order (np.percentile sorts)
RECURSIVE SortedAmounts(_, _)
SortedAmounts(b, rows) ==
  IF rows = {} THEN <<>>
  ELSE LET r == CHOOSE x \in rows : \A z \in rows : x.amount <= z.amount
       IN [i \in 1..b[r] |-> r.amount] \o SortedAmounts(b, rows \ {r})

RECURSIVE SumSquares(_)
SumSquares(s) == IF s = <<>> THEN 0 ELSE Head(s) * Head(s) + SumSquares(Tail(s))

\* n * n * np.std(arr) ** 2: the population variance, scaled to stay an integer
ScaledVariance(arr) == Len(arr) * SumSquares(arr) - SumSeq(arr) * SumSeq(arr)

\* The histories of equal amounts, as <<amount, length>>, whose np.mean is not
\* the amount: np.mean adds the floats one by one and divides, and for five
\* amounts of 0.11 the quotient is 0.11000000000000001.  Every deviation from
\* it is one rounding error and np.std is 1.39e-17, not 0.  Six and seven
\* amounts of 0.11 and the multiples of a quarter unit give the amount itself.
RoundedMeans == {<<11, 5>>}

\* std > 0 (nlp.py:178-179), std being np.std(arr) as the floats give it
StdPositive(arr) ==
  \/ ScaledVariance(arr) > 0
  \/ /\ \A i \in 1..Len(arr) : arr[i] = arr[1]
     /\ <<arr[1], Len(arr)>> \in RoundedMeans

\* A z-score test that takes the deviation with its sign
ZScoreOutlier_Signed(arr, amount) ==
  LET n == Len(arr)
      dev == n * amount - SumSeq(arr)
  IN ScaledVariance(arr) > 0 /\ dev > 0 /\ dev * dev > 9 * ScaledVariance(arr)

\* std > 0 and abs((amount - mean) / std) > 3, both sides squared and scaled
\* by n * n (nlp.py:179-180).  When std is the rounding error of the mean of
\* equal amounts, the quotient is 1 for that amount and beyond 3 for any other.
ZScoreOutlier(arr, amount) ==
  LET n == Len(arr)
      dev == n * amount - SumSeq(arr)
  IN IF ScaledVariance(arr) > 0 THEN dev * dev > 9 * ScaledVariance(arr)
     ELSE StdPositive(arr) /\ amount # arr[1]

\* 4 * np.percentile(arr, 25 * k) of a sorted arr, k in {1, 3}: numpy's default
\* linear interpolation between the ranks around k * (n - 1) / 4
Percentile4(arr, k) ==
  LET pos4 == k * (Len(arr) - 1)
      lo == pos4 \div 4
      fr == pos4 % 4
  IN IF fr = 0 THEN 4 * arr[lo + 1]
     ELSE (4 - fr) * arr[lo + 1] + fr * arr[lo + 2]

\* amount > q3 + 1.5 * (q3 - q1), scaled by 8 (nlp.py:183-186)
IqrOutlier(arr, amount) ==
  LET q1 == Percentile4(arr, 1)
      q3 == Percentile4(arr, 3)
  IN 8 * amount > 2 * q3 + 3 * (q3 - q1)

\* A decision that asks for 4 amounts only
AnomalyOf_MinFour(arr, amount) ==
  IF Len(arr) < 4 THEN FALSE
  ELSE IF ZScoreOutlier(arr, amount) THEN TRUE
  ELSE IF IqrOutlier(arr, amount) THEN TRUE
  ELSE FALSE

\* The decision of detect_anomaly on the fetched amounts (nlp.py:175-189)
AnomalyOf(arr, amount) ==
  IF Len(arr) < 5 THEN FALSE
  ELSE IF ZScoreOutlier(arr, amount) THEN TRUE
  ELSE IF IqrOutlier(arr, amount) THEN TRUE
  ELSE FALSE

\* detect_anomaly(db, user_id, category, amount)
detect_anomaly(b, user, category, amount) ==
  AnomalyOf(SortedAmounts(b, ExpensesOf(b, user, category)), amount)

-----------------------------------------------------------------------------
(* crud.py: expenses *)

MAX_EXPENSE_AMOUNT == 100000

\* A range check without the lower bound
AmountInRange_NoLowerBound(amount) == amount <= MAX_EXPENSE_AMOUNT * Cents

\* 0 < amount <= MAX_EXPENSE_AMOUNT (crud.py:66)
AmountInRange(amount) == 0 < amount /\ amount <= MAX_EXPENSE_AMOUNT * Cents

\* str.strip() on a category name; names are strings here, and the padded
\* sample names are listed
StripName(c) == IF c = " Food " THEN "Food" ELSE IF c = " " THEN "" ELSE c

\* create_expense(db, user_id, amount, category, description, date, merchant)
\* on the tables db = [expenses, categories]: [raised, db, exp].  category and
\* date are optional.  The description and the merchant are cut to 255 and 100
\* characters and stored; no other code reads them, and the rows here leave
\* them out.
create_expense(db, user, amount, category, date) ==
  IF ~AmountInRange(amount) THEN [raised |-> TRUE, db |-> db, exp |-> None]
  ELSE LET name == StripName(IF IsNone(category) \/ category = Some("") THEN "Other"
                             ELSE Val(category))
           row == [user |-> user, amount |-> amount, category |-> name,
                   date |-> IF IsNone(date) THEN now ELSE Val(date)]
       IN [raised |-> FALSE,
           db |-> [expenses |-> BagAdd(db.expenses, row),
                   categories |-> db.categories \cup {name}],
           exp |-> Some(row)]

\* check_expense_anomaly(db, user_id, category, amount): a warning or ""
check_expense_anomaly(b, user, category, amount) ==
  IF detect_anomaly(b, user, category, amount) THEN "unusually high" ELSE ""

\* The tables the handlers of this section write
Db == [expenses |-> expenses, categories |-> categories]

-----------------------------------------------------------------------------
(* crud.py: the monthly summary *)

FirstOfMonth(dt) == [y |-> dt.y, m |-> dt.m, d |-> 1, t |-> 0]
FirstOfNextMonth(dt) ==
  IF dt.m < 12 THEN [y |-> dt.y, m |-> dt.m + 1, d |-> 1, t |-> 0]
  ELSE [y |-> dt.y + 1, m |-> 1, d |-> 1, t |-> 0]

\* get_user_monthly_budget(db, user_id)
get_user_monthly_budget(user) ==
  IF \E r \in users : r.id = user
  THEN (CHOOSE r \in users : r.id = user).monthly_budget
  ELSE 0

\* The total of get_monthly_summary (crud.py:490-498): the user's expenses
\* dated in [first of this month, first of the next month)
MonthTotal(b, user) ==
  SumAmounts(b, {r \in DOMAIN b : /\ r.user = user
                                  /\ DateLeq(FirstOfMonth(now), r.date)
                                  /\ DateLess(r.date, FirstOfNextMonth(now))})

\* The calls of get_monthly_summary that run at the same time.  The GET
\* /monthly_summary route is a plain def, which the server runs on a pool
\* thread with a session of its own (main.py:240-245, main.py:71-76); the
\* hourly job and the chat handler are coroutines of the one event loop
\* (main.py:256-274, main.py:126-175) and call it without awaiting.
MaxInFlight == 2
Callers == {"http", "scheduler", "chat"}
LoopCallers == {"scheduler", "chat"}
Idle == [pc |-> "idle"]
NoCalls == [k \in 1..MaxInFlight |-> Idle]

\* The rows of the MonthlySummary table that the filter of
\* create_or_update_monthly_summary matches (crud.py:447-451)
SummaryRowsOf(tbl, user, year, month) ==
  {i \in 1..Len(tbl) : tbl[i].user = user /\ tbl[i].year = year /\ tbl[i].month = month}

\* .first() of that query: the position of the first matching row, 0 for None
FirstSummaryRow(tbl, user, year, month) ==
  IF SummaryRowsOf(tbl, user, year, month) = {} THEN 0
  ELSE CHOOSE i \in SummaryRowsOf(tbl, user, year, month) :
         \A j \in SummaryRowsOf(tbl, user, year, month) : i <= j

\* db.add and db.commit of a MonthlySummary row (crud.py:459-469).  The
\* table's declaration is not part of the sources; the rows are kept as the
\* functions of crud.py use them, a table with no key over (user, year, month)
\* that the database would enforce on commit.
InsertSummary(tbl, user, year, month, total) ==
  Append(tbl, [user |-> user, year |-> year, month |-> month, total_spent |-> total])

\* The two branches of create_or_update_monthly_summary after its query
\* (crud.py:456-469): existing is the row the query returned, 0 for None
WriteSummary(tbl, existing, user, year, month, total) ==
  IF existing # 0 THEN [tbl EXCEPT ![existing].total_spent = total]
  ELSE InsertSummary(tbl, user, year, month, total)

\* create_or_update_monthly_summary: the first row of the key is updated,
\* or a row is added
UpsertSummary(tbl, user, year, month, total) ==
  IF \E i \in 1..Len(tbl) : tbl[i].user = user /\ tbl[i].year = year /\ tbl[i].month = month
  THEN LET i == CHOOSE k \in 1..Len(tbl) :
                  /\ tbl[k].user = user /\ tbl[k].year = year /\ tbl[k].month = month
                  /\ \A j \in 1..(k - 1) :
                       ~(tbl[j].user = user /\ tbl[j].year = year /\ tbl[j].month = month)
       IN [tbl EXCEPT ![i].total_spent = total]
  ELSE Append(tbl, [user |-> user, year |-> year, month |-> month, total_spent |-> total])

\* get_monthly_summary(db, user_id): [summary, summaries]
get_monthly_summary(b, tbl, user) ==
  LET total == MonthTotal(b, user)
      budget == get_user_monthly_budget(user)
  IN [summary |-> [total |-> total, monthly_budget |-> budget,
                   remaining_budget |-> budget - total,
                   is_over_budget |-> budget - total < 0],
      summaries |-> UpsertSummary(tbl, user, now.y, now.m, total)]

-----------------------------------------------------------------------------
(* nlp.py: the chat processor *)

\* An anomaly query that reads the rows as they were before create_expense
ChatAnomalyRows_BeforeCommit(before, made) == before.expenses

\* The rows the anomaly query of the chat flow reads (nlp.py:44-50)
ChatAnomalyRows(before, made) == made.db.expenses

\* process_chat_message(db, user_id, text): [raised, value, db, summaries,
\* calls, creates, checked].  value is None when the function falls off its end
\* (Python returns None), else Some([message, is_expense, anomaly]); creates
\* lists the create_expense calls as [amount, raised, changed]; checked is the
\* category and the amounts that detect_anomaly fetched, None when it did not run.
AfterParse(db, tbl, user, text, parsed) ==
  LET e == Val(parsed.value)
      made == create_expense(db, user, e.amount, Some(e.category), Some(e.date))
      x == Val(made.exp)
      seen == ChatAnomalyRows(db, made)
      warn == check_expense_anomaly(seen, user, x.category, x.amount)
      sm == get_monthly_summary(db.expenses, tbl, user)
  IN IF parsed.raised
     THEN [raised |-> TRUE, value |-> None, db |-> db, summaries |-> tbl,
           calls |-> parsed.calls, creates |-> <<>>, checked |-> None]
     ELSE IF ~IsNone(parsed.value)
     THEN IF made.raised
          THEN [raised |-> FALSE,
                value |-> Some([message |-> "Error adding expense", is_expense |-> FALSE,
                                anomaly |-> FALSE]),
                db |-> db, summaries |-> tbl,
                calls |-> parsed.calls \o <<"create_expense">>,
                creates |-> <<[amount |-> e.amount, raised |-> TRUE,
                               changed |-> made.db # db]>>,
                checked |-> None]
          ELSE [raised |-> FALSE,
                value |-> Some([message |-> "Added expense", is_expense |-> TRUE,
                                anomaly |-> warn # ""]),
                db |-> made.db, summaries |-> tbl,
                calls |-> parsed.calls \o <<"create_expense", "check_expense_anomaly">>,
                creates |-> <<[amount |-> e.amount, raised |-> FALSE,
                               changed |-> made.db # db]>>,
                checked |-> Some([category |-> x.category,
                                  amounts |-> SortedAmounts(seen, ExpensesOf(seen, user, x.category))])]
     ELSE IF AnyKeyword(Lower(text), BudgetQueryKeywords)
     THEN [raised |-> FALSE,
           value |-> Some([message |-> "Monthly Budget Overview", is_expense |-> FALSE,
                           anomaly |-> FALSE]),
           db |-> db, summaries |-> sm.summaries,
           calls |-> parsed.calls \o <<"get_monthly_summary">>, creates |-> <<>>,
           checked |-> None]
     ELSE [raised |-> FALSE, value |-> None, db |-> db, summaries |-> tbl,
           calls |-> parsed.calls, creates |-> <<>>, checked |-> None]

process_chat_message(db, tbl, user, text, doc, ml, reparse) ==
  AfterParse(db, tbl, user, text, parse_expense_from_text(text, doc, ml, reparse))

-----------------------------------------------------------------------------
(* crud.py: CSV import *)

\* import_csv(db, user_id, file_bytes) from the reader's position rows on.  A
\* data row is [cols, amount_str, date]: the number of its columns, its third
\* column, and what dateutil's parser does on its first column (None when it
\* raises).  The category is always "Other": nlp has no ml_classify_category,
\* so the getattr default answers (crud.py:218).  The result is
\* [raised, db, imported, skipped, creates]; creates lists the create_expense
\* calls as [amount, raised, changed].
RECURSIVE import_rows(_, _, _, _, _, _)
import_rows(db, user, rows, imported, skipped, creates) ==
  IF rows = <<>>
  THEN [raised |-> FALSE, db |-> db, imported |-> imported, skipped |-> skipped,
        creates |-> creates]
  ELSE LET row == Head(rows)
           amount == ParseFloat(Without(Strip(row.amount_str), {"$", ","}))
           made == create_expense(db, user, Val(amount), Some("Other"),
                                  IF IsNone(row.date) THEN Some(now) ELSE row.date)
           call == [amount |-> Val(amount), raised |-> made.raised, changed |-> made.db # db]
       IN IF row.cols < 3 \/ IsNone(amount)
          THEN import_rows(db, user, Tail(rows), imported, skipped + 1, creates)
          ELSE IF made.raised
          THEN [raised |-> TRUE, db |-> db, imported |-> imported, skipped |-> skipped,
                creates |-> Append(creates, call)]
          ELSE import_rows(made.db, user, Tail(rows), imported + 1, skipped,
                           Append(creates, call))

import_csv(db, user, rows) == import_rows(db, user, rows, 0, 0, <<>>)

-----------------------------------------------------------------------------
(* schemas.py: the quick expense's validation *)

ExpenseQuickAmountLe == 100000

\* ExpenseQuick: amount gt 0 and le 100000, category of at least 1 character
ExpenseQuickValid(amount, category) ==
  amount > 0 /\ amount <= ExpenseQuickAmountLe * Cents /\ category # ""

-----------------------------------------------------------------------------
(* Sample inputs *)

WLunch == <<"L","u","n","c","h">>
WTaxi == <<"t","a","x","i">>
WCola == <<"c","o","l","a">>
WMall == <<"m","a","l","l">>
WRent == <<"r","e","n","t">>
WMovie == <<"m","o","v","i","e">>
WAmount == <<"4","5","0",".","5","0">>
WZero == <<"0">>
WMax == <<"1","0","0","0","0","0">>
WOver == <<"1","0","0","0","0","0",".","0","1">>
WCent == <<"0",".","0","1">>
WYesterday == <<"y","e","s","t","e","r","d","a","y">>
WToday == <<"T","o","d","a","y">>
WLastWeek == <<"l","a","s","t"," ","w","e","e","k">>
WAt == <<"a","t">>
WStarbucks == <<"S","t","a","r","b","u","c","k","s">>
WSlashDate == <<"1","2","/","0","5">>
WBudget == <<"B","u","d","g","e","t">>
WHello == <<"h","e","l","l","o">>
SDollar == <<"$","1",",","2","0","0">>
SMinus == <<"-","5">>
SJunk == <<"a","b","c">>
SPlain == <<"1","2",".","5","0">>
Join(a, b) == IF a = <<>> THEN b ELSE a \o <<" ">> \o b

Users == {1}

\* What nlp_spacy(text) may do
DocEmpty == [raises |-> FALSE, ents |-> <<>>]
DocRaises == [raises |-> TRUE, ents |-> <<>>]
DocMoney == [raises |-> FALSE,
             ents |-> <<[label |-> "MONEY", text |-> SJunk, parse |-> None],
                        [label |-> "MONEY", text |-> SDollar, parse |-> None]>>]
DocOrg == [raises |-> FALSE,
           ents |-> <<[label |-> "ORG", text |-> Join(WStarbucks, <<>>) \o <<" ">>, parse |-> None]>>]
DocDate(p) == [raises |-> FALSE, ents |-> <<[label |-> "DATE", text |-> WSlashDate, parse |-> p]>>]

\* What category_model.predict may do
MlRaises == [raises |-> TRUE, label |-> ""]
MlLabel(l) == [raises |-> FALSE, label |-> l]

\* The clock's sample values
NowSamples == {[y |-> 2025, m |-> 1, d |-> 1, t |-> 1]}

\* The texts of the chat messages and of the scanned receipts
ChatTexts ==
  {<<>>, Join(WLunch, WAmount), Join(WMall, WOver), WBudget, WHello, Join(WBudget, SPlain)}
ReceiptTexts == {<<" ">>, Join(WRent, WMax), Join(WTaxi, WZero)}
ChatDocs == {DocEmpty, DocRaises}
ReceiptDocs == {DocEmpty, DocMoney}
ChatMl == MlLabel("Travel")

\* The data rows of the CSV files, and the files
RowPlain == [cols |-> 3, amount_str |-> SPlain, date |-> None]
RowDollar == [cols |-> 3, amount_str |-> SDollar,
              date |-> Some([y |-> 2024, m |-> 12, d |-> 5, t |-> 0])]
RowMinus == [cols |-> 3, amount_str |-> SMinus, date |-> None]
RowJunk == [cols |-> 3, amount_str |-> SJunk, date |-> None]
RowShort == [cols |-> 2, amount_str |-> <<>>, date |-> None]
CsvFiles ==
  {<<>>, <<RowPlain>>, <<RowJunk, RowShort>>, <<RowDollar, RowMinus, RowPlain>>}

QuickAmounts == {0, 1, MAX_EXPENSE_AMOUNT * Cents, MAX_EXPENSE_AMOUNT * Cents + 1}
QuickCategories == {"Food", " Food ", " ", ""}

\* The bounds of the model: the rows of the Expense and ChatHistory tables
MaxExpenses == 2
MaxChat == 1

-----------------------------------------------------------------------------
(* main.py: the handlers *)

\* startup_event: the default categories
DefaultCategories == {"Food", "Shopping", "Transport", "Bills", "Entertainment", "Other"}

Init ==
  /\ now \in NowSamples
  /\ nlp_spacy \in BOOLEAN
  /\ category_model \in BOOLEAN
  /\ expenses = EmptyBag
  /\ categories = DefaultCategories
  /\ budgets = {}
  /\ users = {}
  /\ summaries = <<>>
  /\ chat_history = <<>>
  /\ inflight = NoCalls
  /\ ret = [op |-> "start"]
  /\ calls = <<>>

\* One message of websocket_chat's loop (main.py:150-168).  Unpacking the None
\* that process_chat_message returns raises inside the handler's try, as an
\* exception of process_chat_message does: the handler sends an error reply and
\* save_chat_history is not called.  In ret, raised and returned tell how
\* process_chat_message ended (returned: with a (message, is_expense) pair),
\* stored whether save_chat_history added the exchange.
WsChatMessage(user, text, doc, ml, reparse) ==
  /\ Len(chat_history) < MaxChat
  /\ \E r \in {process_chat_message(Db, summaries, user, text, doc, ml, reparse)} :
     /\ expenses' = r.db.expenses
     /\ categories' = r.db.categories
     /\ summaries' = r.summaries
     /\ calls' = r.calls
     /\ IF r.raised \/ IsNone(r.value)
        THEN /\ chat_history' = chat_history
             /\ ret' = [op |-> "chat", user |-> user, reply |-> "error",
                        is_expense |-> FALSE, message |-> "", anomaly |-> FALSE,
                        creates |-> <<>>, checked |-> None,
                        text |-> text, raised |-> r.raised, returned |-> FALSE,
                        stored |-> FALSE]
        ELSE /\ chat_history' =
                  Append(chat_history, [user |-> user, response |-> Val(r.value).message])
             /\ ret' = [op |-> "chat", user |-> user, reply |-> "update",
                        is_expense |-> Val(r.value).is_expense,
                        message |-> Val(r.value).message,
                        anomaly |-> Val(r.value).anomaly,
                        creates |-> r.creates, checked |-> r.checked,
                        text |-> text, raised |-> FALSE, returned |-> TRUE,
                        stored |-> TRUE]
     /\ UNCHANGED <<config, inflight, budgets, users>>

WsChat(user, text, doc, ml, reparse) ==
  /\ BagSize(expenses) < MaxExpenses
  /\ WsChatMessage(user, text, doc, ml, reparse)

\* upload_receipt (main.py:180-209); text is what the OCR read
UploadReceipt(user, file_ok, text, doc, ml, reparse) ==
  /\ BagSize(expenses) < MaxExpenses
  /\ \E parsed \in {parse_expense_from_text(text, doc, ml, reparse)} :
    \E made \in {IF parsed.raised \/ IsNone(parsed.value)
               THEN [raised |-> TRUE, db |-> Db, exp |-> None]
               ELSE create_expense(Db, user, Val(parsed.value).amount,
                                   Some(Val(parsed.value).category),
                                   Some(Val(parsed.value).date))} :
    \E status \in {IF ~file_ok THEN 400
                 ELSE IF Strip(text) = <<>> THEN 400
                 ELSE IF parsed.raised THEN 500
                 ELSE IF IsNone(parsed.value) THEN 400
                 ELSE IF made.raised THEN 500
                 ELSE 200} :
     /\ expenses' = IF status = 200 THEN made.db.expenses ELSE expenses
     /\ categories' = IF status = 200 THEN made.db.categories ELSE categories
     /\ calls' = IF file_ok /\ Strip(text) # <<>> THEN parsed.calls ELSE <<>>
     /\ ret' = [op |-> "receipt", user |-> user, status |-> status,
                creates |-> IF file_ok /\ Strip(text) # <<>> /\ ~parsed.raised
                               /\ ~IsNone(parsed.value)
                            THEN <<[amount |-> Val(parsed.value).amount,
                                    raised |-> made.raised, changed |-> made.db # Db]>>
                            ELSE <<>>]
     /\ UNCHANGED <<config, inflight, budgets, users, summaries, chat_history>>

\* upload_csv (main.py:211-225)
UploadCsv(user, file_ok, rows) ==
  /\ BagSize(expenses) < MaxExpenses
  /\ \E r \in {import_csv(Db, user, rows)} :
     /\ BagSize(r.db.expenses) <= MaxExpenses
     /\ expenses' = IF file_ok THEN r.db.expenses ELSE expenses
     /\ categories' = IF file_ok THEN r.db.categories ELSE categories
     /\ calls' = <<>>
     /\ ret' = IF ~file_ok
               THEN [op |-> "csv", user |-> user, status |-> 400, rows |-> Len(rows),
                     imported |-> 0, skipped |-> 0, creates |-> <<>>]
               ELSE [op |-> "csv", user |-> user,
                     status |-> IF r.raised THEN 500 ELSE 200, rows |-> Len(rows),
                     imported |-> r.imported, skipped |-> r.skipped, creates |-> r.creates]
     /\ UNCHANGED <<config, inflight, budgets, users, summaries, chat_history>>

\* quick_expense (main.py:228-230) behind the ExpenseQuick schema
QuickExpense(user, amount, category) ==
  /\ BagSize(expenses) < MaxExpenses
  /\ \E made \in {create_expense(Db, user, amount, Some(StripName(category)), Some(now))} :
    \E valid \in {ExpenseQuickValid(amount, category)} :
     /\ expenses' = IF valid /\ ~made.raised THEN made.db.expenses ELSE expenses
     /\ categories' = IF valid /\ ~made.raised THEN made.db.categories ELSE categories
     /\ calls' = <<>>
     /\ ret' = [op |-> "quick", user |-> user,
                status |-> IF ~valid THEN 422 ELSE IF made.raised THEN 500 ELSE 200,
                creates |-> IF valid
                            THEN <<[amount |-> amount, raised |-> made.raised,
                                    changed |-> made.db # Db]>>
                            ELSE <<>>]
     /\ UNCHANGED <<config, inflight, budgets, users, summaries, chat_history>>

Next ==
  \/ \E u \in Users, text \in ChatTexts, doc \in ChatDocs :
       WsChat(u, text, doc, ChatMl, None)
  \/ \E u \in Users, ok \in BOOLEAN, text \in ReceiptTexts, doc \in ReceiptDocs :
       UploadReceipt(u, ok, text, doc, ChatMl, None)
  \/ \E u \in Users, ok \in BOOLEAN, rows \in CsvFiles :
       UploadCsv(u, ok, rows)
  \/ \E u \in Users, a \in QuickAmounts, c \in QuickCategories :
       QuickExpense(u, a, c)

Spec == Init /\ [][Next]_vars

-----------------------------------------------------------------------------
(* Properties of the handlers *)

\* The create_expense calls of the last handler
LastCreates == IF ret.op = "start" THEN <<>> ELSE ret.creates

\* C1: every stored Expense has 0 < amount <= 100000, and every create_expense
\* call with an amount outside that range raised and left the Expense and
\* Category tables as they were.
C1_StoredAmountsInRange ==
  /\ \A r \in DOMAIN expenses : 0 < r.amount /\ r.amount <= 100000 * Cents
  /\ \A i \in 1..Len(LastCreates) :
       ~(0 < LastCreates[i].amount /\ LastCreates[i].amount <= 100000 * Cents)
         => LastCreates[i].raised /\ ~LastCreates[i].changed

\* A CSV import stored a row and then had a create_expense call rejected
C1_Witness ==
  /\ ret.op = "csv"
  /\ DOMAIN expenses # {}
  /\ \E i \in 1..Len(ret.creates) :
       ret.creates[i].amount <= 0 /\ ret.creates[i].raised /\ ~ret.creates[i].changed
  /\ \E i \in 1..Len(ret.creates) : ~ret.creates[i].raised

\* C25: import_csv handles every data row on its own: a row whose amount is
\* outside (0, 100000] does not keep the later rows from being imported, the
\* call always returns counts with imported + skipped equal to the number of
\* data rows, and exactly `imported` new expenses are stored.
C25_EveryRowCounted ==
  [][(ret'.op = "csv" /\ ret'.status # 400) =>
       /\ ret'.status = 200
       /\ ret'.imported + ret'.skipped = ret'.rows
       /\ BagSize(expenses') = BagSize(expenses) + ret'.imported]_vars

-----------------------------------------------------------------------------
(* The anomaly check on stored histories *)

\* Amounts in hundredths: multiples of a quarter unit (floats hold them
\* exactly), and 0.11 and 0.05 (floats round them)
HistoryAmounts == {11, 25, 1000, 1025}
CheckedAmounts == {5, 11, 25, 50, 1000, 1025}
HistoryCategories == {"Food", "Bills"}
\* The bound on the rows of the Expense table
MaxHistory == 6

\* db.add of one Expense through create_expense
StoreHistory(user, amount, category) ==
  /\ BagSize(expenses) < MaxHistory
  /\ category = "Bills" <=> amount = 11
  /\ \E made \in {create_expense(Db, user, amount, Some(category), Some(now))} :
       /\ expenses' = made.db.expenses
       /\ categories' = made.db.categories
  /\ ret' = [op |-> "store"]
  /\ calls' = <<>>
  /\ UNCHANGED <<config, inflight, budgets, users, summaries, chat_history>>

\* One call of detect_anomaly; history is the fetched amounts
DetectAnomaly(user, category, amount) ==
  /\ ret' = [op |-> "detect_anomaly", user |-> user, category |-> category,
             amount |-> amount,
             history |-> SortedAmounts(expenses, ExpensesOf(expenses, user, category)),
             result |-> detect_anomaly(expenses, user, category, amount)]
  /\ calls' = <<>>
  /\ UNCHANGED <<config, inflight, expenses, categories, budgets, users, summaries, chat_history>>

NextAnomaly ==
  \/ \E u \in Users, a \in HistoryAmounts, c \in HistoryCategories : StoreHistory(u, a, c)
  \/ \E u \in Users, a \in CheckedAmounts, c \in HistoryCategories : DetectAnomaly(u, c, a)

SpecAnomaly == Init /\ [][NextAnomaly]_vars

\* C2: on a history of fewer than 5 amounts detect_anomaly returns false,
\* whatever the new amount is.
C2_ShortHistoryNeverAnomalous ==
  (ret.op = "detect_anomaly" /\ Len(ret.history) < 5) => ret.result = FALSE

\* Four amounts of 0.25 and the new amount 10.25: no anomaly is reported
C2_Witness ==
  /\ ret.op = "detect_anomaly"
  /\ ret.history = <<25, 25, 25, 25>>
  /\ ret.amount = 1025
  /\ ret.result = FALSE

\* The deviations n * x - sum of the amounts of h, and the sum of their squares
\* (n * n * n times the population variance)
RECURSIVE SquaredDeviations(_, _, _)
SquaredDeviations(h, n, total) ==
  IF h = <<>> THEN 0
  ELSE (n * Head(h) - total) * (n * Head(h) - total) + SquaredDeviations(Tail(h), n, total)

\* std > 0 and |a - mean| / std > 3, in whole numbers; when only the rounding
\* of the mean makes std positive, every amount but the history's is beyond
ZTestFires(h, a) ==
  LET n == Len(h)
      total == SumSeq(h)
      sq == SquaredDeviations(h, n, total)
  IN IF sq > 0 THEN n * (n * a - total) * (n * a - total) > 9 * sq
     ELSE StdPositive(h) /\ a # h[1]

\* 4 times the p-th quartile of the ascending h, interpolated linearly between
\* the two ranks around p * (n - 1) / 4
Quartile4(h, p) ==
  LET lo == (p * (Len(h) - 1)) \div 4
      fr == (p * (Len(h) - 1)) % 4
  IN 4 * h[lo + 1] + (IF fr = 0 THEN 0 ELSE fr * (h[lo + 2] - h[lo + 1]))

\* a > p75 + 1.5 * (p75 - p25), times 8
IqrTestFires(h, a) == 8 * a > 5 * Quartile4(h, 3) - 3 * Quartile4(h, 1)

C19_ConstantHistory ==
  (/\ ret.op = "detect_anomaly"
   /\ Len(ret.history) >= 5
   /\ \A i \in 1..Len(ret.history) : ret.history[i] = ret.history[1]) =>
    (ret.result <=> ret.amount > ret.history[1])

-----------------------------------------------------------------------------
(* The chat flow on stored histories *)

\* A message of an expense of 12.50 and one whose amount create_expense rejects
HistoryChatTexts == {Join(WLunch, SPlain), Join(WMall, WOver)}

\* One message of websocket_chat's loop on a table of stored expenses
ChatOnHistory(user, text, doc) ==
  /\ BagSize(expenses) < MaxHistory
  /\ WsChatMessage(user, text, doc, ChatMl, None)

NextChat ==
  \/ \E u \in Users, a \in HistoryAmounts, c \in HistoryCategories : StoreHistory(u, a, c)
  \/ \E u \in Users, text \in HistoryChatTexts, doc \in ChatDocs : ChatOnHistory(u, text, doc)

SpecChat == Init /\ [][NextChat]_vars

\* Where a call stands in the list of the calls of the last handler (0: nowhere)
CallAt(name) ==
  IF \E i \in 1..Len(calls) : calls[i] = name
  THEN CHOOSE i \in 1..Len(calls) : calls[i] = name /\ \A j \in 1..(i - 1) : calls[j] # name
  ELSE 0

\* The amounts of the user's stored expenses of a category, ascending
StoredAmounts(user, category) ==
  SortedAmounts(expenses, {r \in DOMAIN expenses : r.user = user /\ r.category = category})

\* C11: in the chat flow the anomaly check runs only after create_expense
\* stored the expense, on a history that holds the stored amount (the stored
\* rows of the user and the category, the new one among them); when
\* create_expense fails no anomaly check runs, no warning is produced, nothing
\* is stored and the reply is flagged as not an expense.
C11_AnomalyCheckAfterPersist ==
  ret.op = "chat" =>
    /\ CallAt("check_expense_anomaly") > 0 =>
         /\ Len(ret.creates) = 1 /\ ~ret.creates[1].raised /\ ret.creates[1].changed
         /\ CallAt("create_expense") > 0
         /\ CallAt("create_expense") < CallAt("check_expense_anomaly")
    /\ (ret.creates # <<>> /\ ~ret.creates[1].raised) =>
         /\ ret.is_expense
         /\ CallAt("check_expense_anomaly") > 0
         /\ ~IsNone(ret.checked)
         /\ \E i \in 1..Len(Val(ret.checked).amounts) :
              Val(ret.checked).amounts[i] = ret.creates[1].amount
         /\ Val(ret.checked).amounts = StoredAmounts(ret.user, Val(ret.checked).category)
         /\ ret.anomaly <=>
              /\ Len(Val(ret.checked).amounts) >= 5
              /\ \/ ZTestFires(Val(ret.checked).amounts, ret.creates[1].amount)
                 \/ IqrTestFires(Val(ret.checked).amounts, ret.creates[1].amount)
    /\ (ret.creates # <<>> /\ ret.creates[1].raised) =>
         /\ CallAt("check_expense_anomaly") = 0
         /\ IsNone(ret.checked)
         /\ ~ret.creates[1].changed
         /\ ~ret.anomaly
         /\ ~ret.is_expense

\* "Lunch 12.50" after four Food expenses of 0.25: the check runs on five
\* amounts, the 12.50 among them, and warns; on the four alone it would not
C11_Witness ==
  /\ ret.op = "chat"
  /\ ret.is_expense
  /\ ~IsNone(ret.checked)
  /\ Val(ret.checked).amounts = <<25, 25, 25, 25, 1250>>
  /\ ret.anomaly

\* C21: for every chat text process_chat_message returns a (message,
\* is_expense) pair, and the handler stores the exchange in the chat history
\* and sends an update reply; so it does for a text without an amount and
\* without a budget-query keyword.
C21_EveryMessageAnswered ==
  ret.op = "chat" => (ret.returned /\ ret.stored /\ ret.reply = "update")

\* The text holds a decimal digit
HasDigit(text) == \E i \in 1..Len(text) : IsDigit(text[i])

\* C24: a chat text that holds a digit is handled as an expense, stored or
\* answered with the add-expense error, also when it holds a budget-query
\* keyword, and get_monthly_summary is not called for it.
C24_ExpenseBeforeBudgetQuery ==
  (ret.op = "chat" /\ HasDigit(ret.text)) =>
    /\ ret.returned
    /\ ret.is_expense \/ ret.message = "Error adding expense"
    /\ CallAt("get_monthly_summary") = 0

-----------------------------------------------------------------------------
(* The text functions of nlp.py on sample texts *)

\* The words the sample texts are made of, and the bound on the words of a text
ClassifyWords == {WLunch, WCola, WTaxi, WMall, WRent, WMovie, WHello}
ParseWords == {WLunch, WAmount, WZero, WYesterday, WToday, WLastWeek, WSlashDate, WBudget}
MaxWords == 2

\* The texts of at most n of the words, joined by blanks
RECURSIVE TextsOf(_, _)
TextsOf(words, n) ==
  IF n = 0 THEN {<<>>}
  ELSE LET T == TextsOf(words, n - 1) IN T \cup {Join(t, w) : t \in T, w \in words}

\* What dateutil's parser may do on a date text: raise, or parse a date with
\* an accepted year or with a year before 2000
InRangeDate == [y |-> 2024, m |-> 12, d |-> 5, t |-> 0]
OutOfRangeDate == [y |-> 1999, m |-> 12, d |-> 5, t |-> 0]
DateParses == {None, Some(InRangeDate), Some(OutOfRangeDate)}
ParseDocs == {DocEmpty, DocRaises, DocMoney, DocOrg} \cup {DocDate(p) : p \in DateParses}
ParseMls == {MlRaises, MlLabel("Travel")}
Reparses == DateParses
\* The entity model, the classifier and dateutil act only when they are called:
\* the models when they are loaded, dateutil when the text holds a numeric date
DocChoices == IF nlp_spacy THEN ParseDocs ELSE {DocEmpty}
MlChoices == IF category_model THEN ParseMls ELSE {MlRaises}
ReparseChoices(text) == IF HasNumericDate(Strip(Lower(text))) THEN Reparses ELSE {None}

\* One call of parse_expense_from_text; amount, date and merchant are what
\* extract_amount, extract_date and extract_merchant return on the same text,
\* doc and reparse what the entity model and dateutil did in the call.  The text functions read the
\* configuration only and write nothing, so a behaviour holds one call.
ParseText(text, doc, ml, reparse) ==
  /\ ret.op = "start"
  /\ \E r \in {parse_expense_from_text(text, doc, ml, reparse)} :
       /\ ret' = [op |-> "parse_expense_from_text", text |-> text,
                  raised |-> r.raised, value |-> r.value,
                  amount |-> extract_amount(text, doc),
                  date |-> extract_date(text, doc, reparse),
                  merchant |-> extract_merchant(text, doc),
                  doc |-> doc, reparse |-> reparse]
       /\ calls' = r.calls
  /\ UNCHANGED <<config, inflight, expenses, categories, budgets, users, summaries, chat_history>>

\* One call of classify_category; model_failed tells that category_model is
\* missing or its predict raised
ClassifyText(text, ml) ==
  /\ ret.op = "start"
  /\ \E r \in {classify_category(text, ml)} :
       ret' = [op |-> "classify_category", text |-> text, raised |-> r.raised,
               value |-> r.value, model_failed |-> ~category_model \/ ml.raises]
  /\ calls' = <<>>
  /\ UNCHANGED <<config, inflight, expenses, categories, budgets, users, summaries, chat_history>>

NextParse ==
  \/ /\ ret.op = "start"
     /\ \E text \in TextsOf(ParseWords, MaxWords) :
          \E doc \in DocChoices, ml \in MlChoices, reparse \in ReparseChoices(text) :
            ParseText(text, doc, ml, reparse)
  \/ \E text \in TextsOf(ClassifyWords, MaxWords), ml \in ParseMls :
       ClassifyText(text, ml)

SpecParse == Init /\ [][NextParse]_vars

\* C4: parse_expense_from_text returns null exactly when extract_amount returns
\* null, and then only extract_amount was invoked; the empty text yields null;
\* a returned expense carries a category and a date, the extracted date or now.
C4_NullIffNoAmount ==
  ret.op = "parse_expense_from_text" =>
    /\ (~ret.raised /\ IsNone(ret.value)) <=> (~ret.amount.raised /\ IsNone(ret.amount.value))
    /\ (~ret.raised /\ IsNone(ret.value)) => calls = <<"extract_amount">>
    /\ ret.text = <<>> => (~ret.raised /\ IsNone(ret.value))
    /\ (~ret.raised /\ ~IsNone(ret.value)) =>
         /\ Val(ret.value).amount = Val(ret.amount.value)
         /\ Val(ret.value).category \in STRING
         /\ Val(ret.value).date = (IF IsNone(ret.date) THEN now ELSE Val(ret.date))
         /\ DOMAIN Val(ret.value).date = {"y", "m", "d", "t"}

\* The text "0" holds the amount 0, no date and no keyword: an expense is
\* returned, dated now, after all four helpers were invoked
C4_Witness ==
  /\ ret.op = "parse_expense_from_text"
  /\ ret.text = WZero
  /\ ~ret.raised /\ ~IsNone(ret.value)
  /\ Val(ret.value).amount = 0
  /\ Val(ret.value).date = now
  /\ Len(calls) = 4

\* t holds k as a contiguous part
Occurs(k, t) == \E i \in 1..(Len(t) - Len(k) + 1) : SubSeq(t, i, i + Len(k) - 1) = k

\* The keyword groups in their order
KeywordGroups ==
  <<[name |-> "Food", words |-> FoodKeywords],
    [name |-> "Transport", words |-> TransportKeywords],
    [name |-> "Shopping", words |-> ShoppingKeywords],
    [name |-> "Bills", words |-> BillsKeywords],
    [name |-> "Entertainment", words |-> EntertainmentKeywords]>>
GroupMatches(g, t) == \E i \in 1..Len(KeywordGroups[g].words) : Occurs(KeywordGroups[g].words[i], t)

\* The first group with a keyword in the lower-cased text, or "Other"
FirstMatchingGroup(text) ==
  LET t == Lower(text)
      hits == {g \in 1..Len(KeywordGroups) : GroupMatches(g, t)}
  IN IF hits = {} THEN "Other"
     ELSE KeywordGroups[CHOOSE g \in hits : \A h \in hits : g <= h].name

\* C10: classify_category never raises and returns a category; when the model
\* is missing or its prediction raises, the category is the first keyword
\* group, in the order Food, Transport, Shopping, Bills, Entertainment, with
\* a keyword in the lower-cased text, "Other" when there is none; the empty
\* text yields "Other".
C10_FirstKeywordGroupWins ==
  ret.op = "classify_category" =>
    /\ ~ret.raised
    /\ ret.value \in STRING
    /\ ret.model_failed => ret.value = FirstMatchingGroup(ret.text)
    /\ ret.text = <<>> => ret.value = "Other"

\* "Lunch taxi" holds a Food and a Transport keyword and predict raised: Food
C10_Witness ==
  /\ ret.op = "classify_category"
  /\ ret.text = Join(WLunch, WTaxi)
  /\ ret.model_failed
  /\ category_model
  /\ ret.value = "Food"

\* C15: when the entity model raises on a text, extract_amount and
\* extract_merchant do not raise: they return what their regular expressions
\* find in the text, as they do on a text the model finds no entity in.
C15_EntityModelFailureIsCaught ==
  (ret.op = "parse_expense_from_text" /\ nlp_spacy /\ ret.doc.raises) =>
    /\ ~ret.amount.raised
    /\ ret.amount = extract_amount(ret.text, DocEmpty)
    /\ ~ret.merchant.raised
    /\ ret.merchant = extract_merchant(ret.text, DocEmpty)

\* The keywords of extract_date in the lower-cased text
SaysYesterday(text) == Occurs(WYesterday, Lower(text))
SaysToday(text) == Occurs(Lower(WToday), Lower(text))
SaysLastWeek(text) == Occurs(WLastWeek, Lower(text))

\* C16: a text with "yesterday" is dated now minus 1 day, otherwise a text
\* with "today" is dated now, otherwise a text with "last week" is dated now
\* minus 7 days, whatever numeric date or date entity the text holds and
\* whatever the entity model and the date parser do.
C16_KeywordsFirst ==
  ret.op = "parse_expense_from_text" =>
    /\ SaysYesterday(ret.text) => ret.date = Some(MinusDays(now, 1))
    /\ (~SaysYesterday(ret.text) /\ SaysToday(ret.text)) => ret.date = Some(now)
    /\ (~SaysYesterday(ret.text) /\ ~SaysToday(ret.text) /\ SaysLastWeek(ret.text)) =>
         ret.date = Some(MinusDays(now, 7))

\* "yesterday 12/05" with a date entity that parses to 2024-12-05: the result
\* is the day before now, not the entity's date
C16_Witness ==
  /\ ret.op = "parse_expense_from_text"
  /\ ret.text = Join(WYesterday, WSlashDate)
  /\ nlp_spacy
  /\ ret.doc = DocDate(Some(InRangeDate))
  /\ ret.reparse = Some(InRangeDate)
  /\ ret.date = Some([y |-> 2024, m |-> 12, d |-> 31, t |-> 1])

\* The entity model gave a date that extract_date accepts
EntityDateAccepted(doc) ==
  \E i \in 1..Len(doc.ents) :
    /\ doc.ents[i].label = "DATE"
    /\ ~IsNone(doc.ents[i].parse)
    /\ YearAccepted(Val(doc.ents[i].parse), now)

\* What the numeric date of the text gives: the date dateutil parses from the
\* match when its year is accepted, null otherwise
NumericDateFallback(text, reparse) ==
  IF HasNumericDate(Strip(Lower(text))) /\ ~IsNone(reparse) /\ YearAccepted(Val(reparse), now)
  THEN reparse
  ELSE None

\* C17: when no keyword matched and the entity model is absent or gave no
\* accepted date (no date entity, one that fails to parse, one with a year
\* outside [2000, current year + 1]), extract_date returns what the numeric
\* date of the text gives; without a keyword no date with a year outside
\* that range is returned.
C17_RegexFallbackAfterEntities ==
  (/\ ret.op = "parse_expense_from_text"
   /\ ~SaysYesterday(ret.text) /\ ~SaysToday(ret.text) /\ ~SaysLastWeek(ret.text)) =>
    /\ (~nlp_spacy \/ (~ret.doc.raises /\ ~EntityDateAccepted(ret.doc))) =>
         ret.date = NumericDateFallback(ret.text, ret.reparse)
    /\ ~IsNone(ret.date) => YearAccepted(Val(ret.date), now)

-----------------------------------------------------------------------------
(* crud.py: registration, default budgets and the budget optimizer *)

\* DEFAULT_CATEGORY_PERCENTAGES (crud.py:22-25), in tenths
DEFAULT_CATEGORY_PERCENTAGES ==
  [c \in {"Food", "Shopping", "Transport", "Entertainment", "Bills", "Other"} |->
     IF c = "Food" THEN 4 ELSE IF c \in {"Shopping", "Bills"} THEN 2 ELSE 1]

\* create_default_budgets(db, user_id, total_budget): one Budget row per default
\* category, limit = total_budget * pct.  The sample budgets are whole tenths of
\* a unit, so the limits are whole hundredths.
create_default_budgets(tbl, user, total_budget) ==
  tbl \cup {[user |-> user, category |-> c,
             monthly_limit |-> (total_budget * DEFAULT_CATEGORY_PERCENTAGES[c]) \div 10] :
            c \in DOMAIN DEFAULT_CATEGORY_PERCENTAGES}

\* get_user_budgets(db, user_id): category -> limit
get_user_budgets(tbl, user) ==
  LET rows == {r \in tbl : r.user = user}
  IN [c \in {r.category : r \in rows} |->
        (CHOOSE r \in rows : r.category = c).monthly_limit]

\* get_monthly_totals(db, user_id): category -> sum of the user's amounts dated
\* at or after today's time of day on the first of this month
get_monthly_totals(b, user) ==
  LET start == [now EXCEPT !.d = 1]
      rows == {r \in DOMAIN b : r.user = user /\ DateLeq(start, r.date)}
  IN [c \in {r.category : r \in rows} |-> SumAmounts(b, {r \in rows : r.category = c})]

\* totals.get(cat, 0.0)
Spent(totals, c) == IF c \in DOMAIN totals THEN totals[c] ELSE 0

\* sum(d.values())
RECURSIVE SumValuesOver(_, _)
SumValuesOver(f, S) ==
  IF S = {} THEN 0
  ELSE LET c == CHOOSE x \in S : TRUE IN f[c] + SumValuesOver(f, S \ {c})
SumValues(f) == SumValuesOver(f, DOMAIN f)

\* max_reduction_pct = 0.3, as a fraction
MaxReductionNum == 3
MaxReductionDen == 10

\* overs of optimize_budgets (crud.py:357-360)
Overs(bud, totals) ==
  [c \in {x \in DOMAIN bud : Spent(totals, x) > bud[x]} |-> Spent(totals, c) - bud[c]]

\* available_to_reallocate of a category that is not overspent (crud.py:362-364)
AvailableToReallocate(limit, spent) ==
  Min(Max(0, limit - spent), RoundDiv(limit * MaxReductionNum, MaxReductionDen))

\* surplus of optimize_budgets (crud.py:361-366)
Surplus(bud, totals) ==
  [c \in {x \in DOMAIN bud : /\ ~(Spent(totals, x) > bud[x])
                             /\ AvailableToReallocate(bud[x], Spent(totals, x)) > 0} |->
     AvailableToReallocate(bud[c], Spent(totals, c))]

\* round(x * redistribution_ratio, 2), the ratio being min(1.0, ts / to)
Redistributed(x, ts, to) == IF ts >= to THEN x ELSE RoundDiv(x * ts, to)

\* A choice of the return that skips the test of the total surplus
OptimizeOutcome_NoSurplusTest(has_budgets, total_overspent, total_surplus) ==
  IF ~has_budgets THEN "no_budgets"
  ELSE IF total_overspent = 0 THEN "balanced"
  ELSE "redistributed"

\* Which return of optimize_budgets is taken (crud.py:351, 371, 378, 416)
OptimizeOutcome(has_budgets, total_overspent, total_surplus) ==
  IF ~has_budgets THEN "no_budgets"
  ELSE IF total_overspent = 0 THEN "balanced"
  ELSE IF total_surplus = 0 THEN "no_surplus"
  ELSE "redistributed"

\* Suggested limits whose ratio is not capped at 1
SuggestedBudgets_UncappedRatio(bud, overs, surplus) ==
  LET to == SumValues(overs)
      ts == SumValues(surplus)
  IN [c \in DOMAIN bud |->
        IF c \in DOMAIN surplus THEN bud[c] - RoundDiv(surplus[c] * ts, to)
        ELSE IF c \in DOMAIN overs THEN bud[c] + RoundDiv(overs[c] * ts, to)
        ELSE bud[c]]

\* Suggested limits that lower the surplus categories and raise no limit
SuggestedBudgets_SurplusOnly(bud, overs, surplus) ==
  LET to == SumValues(overs)
      ts == SumValues(surplus)
  IN [c \in DOMAIN bud |->
        IF c \in DOMAIN surplus THEN bud[c] - Redistributed(surplus[c], ts, to)
        ELSE bud[c]]

\* suggested of optimize_budgets (crud.py:385-396)
SuggestedBudgets(bud, overs, surplus) ==
  LET to == SumValues(overs)
      ts == SumValues(surplus)
  IN [c \in DOMAIN bud |->
        IF c \in DOMAIN surplus THEN bud[c] - Redistributed(surplus[c], ts, to)
        ELSE IF c \in DOMAIN overs THEN bud[c] + Redistributed(overs[c], ts, to)
        ELSE bud[c]]

\* A run whose suggested is the dict budgets itself, not a copy of it
BudgetsAtReturn_Aliased(bud, suggested) == suggested

\* The dict the name budgets holds at the last return: suggested is
\* budgets.copy() (crud.py:385), and the two loops write to suggested only
BudgetsAtReturn(bud, suggested) == bud

\* optimize_budgets(db, user_id): the returned dict as [keys, ...]; keys is the
\* set of its keys, and a key it does not hold is an empty mapping here
optimize_budgets(tbl, b, user) ==
  LET bud == get_user_budgets(tbl, user)
      totals == get_monthly_totals(b, user)
      overs == Overs(bud, totals)
      surplus == Surplus(bud, totals)
      outcome == OptimizeOutcome(DOMAIN bud # {}, SumValues(overs), SumValues(surplus))
      nothing == [c \in {} |-> 0]
  IN IF outcome = "no_budgets"
     THEN [keys |-> {"error"}, original_budgets |-> nothing, current_spending |-> nothing,
           overspending |-> nothing, available_surplus |-> nothing,
           suggested_budgets |-> nothing]
     ELSE IF outcome = "balanced"
     THEN [keys |-> {"summary", "original_budgets", "current_spending"},
           original_budgets |-> bud, current_spending |-> totals,
           overspending |-> nothing, available_surplus |-> nothing,
           suggested_budgets |-> nothing]
     ELSE IF outcome = "no_surplus"
     THEN [keys |-> {"summary", "original_budgets", "current_spending", "overspending"},
           original_budgets |-> bud, current_spending |-> totals,
           overspending |-> overs, available_surplus |-> nothing,
           suggested_budgets |-> nothing]
     ELSE [keys |-> {"original_budgets", "current_spending", "overspending",
                     "available_surplus", "suggested_budgets", "summary"},
           original_budgets |-> BudgetsAtReturn(bud, SuggestedBudgets(bud, overs, surplus)),
           current_spending |-> totals,
           overspending |-> overs, available_surplus |-> surplus,
           suggested_budgets |-> SuggestedBudgets(bud, overs, surplus)]

-----------------------------------------------------------------------------
(* The budget optimizer on stored budgets and expenses *)

\* User 1 holds the single budget Food: 1000.00; the users registered later
\* get the default budgets of their monthly budget
SeededUsers == {[id |-> 1, monthly_budget |-> 100000]}
SeededBudgets == {[user |-> 1, category |-> "Food", monthly_limit |-> 100000]}
RegisterBudgets == {0, 10, 15030}
OptimizeUsers == {1, 2}
LastMonth == [y |-> 2024, m |-> 12, d |-> 5, t |-> 0]
\* The dates of the stored expenses: now, last month, 00:00 of the first day of
\* this month, and next month
SpendDates ==
  {now, LastMonth, [y |-> 2025, m |-> 1, d |-> 1, t |-> 0],
   [y |-> 2025, m |-> 2, d |-> 5, t |-> 0]}
SpendSamples ==
  {[user |-> 1, category |-> "Food", amount |-> 150000],
   [user |-> 1, category |-> "Food", amount |-> 50000],
   [user |-> 2, category |-> "Food", amount |-> 11012],
   [user |-> 2, category |-> "Food", amount |-> 3500],
   [user |-> 2, category |-> "Shopping", amount |-> 3006]}
\* The bounds on the rows of the User and the Expense tables
MaxUsers == 2
MaxSpends == 2

\* The optimizer reads neither language model: both are taken as loaded
InitOptimize ==
  /\ now \in NowSamples
  /\ nlp_spacy = TRUE
  /\ category_model = TRUE
  /\ expenses = EmptyBag
  /\ categories = DefaultCategories
  /\ budgets = SeededBudgets
  /\ users = SeededUsers
  /\ summaries = <<>>
  /\ chat_history = <<>>
  /\ inflight = NoCalls
  /\ ret = [op |-> "start"]
  /\ calls = <<>>

\* register (main.py:96-109): create_user, then create_default_budgets
Register(monthly_budget) ==
  /\ Cardinality(users) < MaxUsers
  /\ \E id \in {Cardinality(users) + 1} :
       /\ users' = users \cup {[id |-> id, monthly_budget |-> monthly_budget]}
       /\ budgets' = create_default_budgets(budgets, id, monthly_budget)
       /\ ret' = [op |-> "register", user |-> id, monthly_budget |-> monthly_budget]
  /\ calls' = <<>>
  /\ UNCHANGED <<config, inflight, expenses, categories, summaries, chat_history>>

\* db.add of one Expense through create_expense
StoreSpend(row, date) ==
  /\ BagSize(expenses) < MaxSpends
  /\ \E made \in {create_expense(Db, row.user, row.amount, Some(row.category), Some(date))} :
       /\ expenses' = made.db.expenses
       /\ categories' = made.db.categories
  /\ ret' = [op |-> "store"]
  /\ calls' = <<>>
  /\ UNCHANGED <<config, inflight, budgets, users, summaries, chat_history>>

\* budget_optimize (main.py:251-253): one call of optimize_budgets; rows is
\* the user's Budget rows as the call found them
OptimizeBudgets(user) ==
  /\ ret' = [op |-> "optimize_budgets", user |-> user,
             rows |-> {r \in budgets : r.user = user},
             result |-> optimize_budgets(budgets, expenses, user)]
  /\ calls' = <<>>
  /\ UNCHANGED <<config, inflight, expenses, categories, budgets, users, summaries, chat_history>>

\* The Budget table with the user's limits replaced by the limits given
WithLimits(tbl, user, limits) ==
  {r \in tbl : r.user # user}
    \cup {[user |-> user, category |-> c, monthly_limit |-> limits[c]] : c \in DOMAIN limits}

\* optimize_budgets, and optimize_budgets again on the limits it suggested with
\* the same expenses; second is the first result when it suggested no limits
OptimizeAgain(user) ==
  /\ \E first \in {optimize_budgets(budgets, expenses, user)} :
       ret' = [op |-> "optimize_again", user |-> user, first |-> first,
               second |-> IF "suggested_budgets" \in first.keys
                          THEN optimize_budgets(
                                 WithLimits(budgets, user, first.suggested_budgets),
                                 expenses, user)
                          ELSE first]
  /\ calls' = <<>>
  /\ UNCHANGED <<config, inflight, expenses, categories, budgets, users, summaries, chat_history>>

NextOptimize ==
  \/ \E b \in RegisterBudgets : Register(b)
  \/ \E row \in SpendSamples, date \in SpendDates : StoreSpend(row, date)
  \/ \E u \in OptimizeUsers : OptimizeBudgets(u)
  \/ \E u \in OptimizeUsers : OptimizeAgain(u)

SpecOptimize == InitOptimize /\ [][NextOptimize]_vars

\* The figures of the user of the last optimize_budgets call, from the tables:
\* the budgeted categories, a category's limit and month's spending, its
\* overspend, and its available surplus in whole hundredths
OptUser == ret.user
OptCategories == {r.category : r \in {x \in budgets : x.user = OptUser}}
OptLimit(c) == (CHOOSE r \in budgets : r.user = OptUser /\ r.category = c).monthly_limit
OptSpent(c) == Spent(get_monthly_totals(expenses, OptUser), c)
OptOverspend(c) == IF OptSpent(c) > OptLimit(c) THEN OptSpent(c) - OptLimit(c) ELSE 0
OptSurplus(c) ==
  IF OptSpent(c) > OptLimit(c) THEN 0
  ELSE Min(OptLimit(c) - OptSpent(c), RoundDiv(3 * OptLimit(c), 10))
RECURSIVE SumOf(_, _)
SumOf(F(_), S) ==
  IF S = {} THEN 0 ELSE LET c == CHOOSE x \in S : TRUE IN F(c) + SumOf(F, S \ {c})
TotalOverspend == SumOf(OptOverspend, OptCategories)
TotalSurplus == SumOf(OptSurplus, OptCategories)

\* C5: optimize_budgets returns suggested limits exactly when the user has
\* budgets, the total overspend is > 0 and the total available surplus is > 0;
\* without budgets it returns the no-budgets result, with no overspend the
\* balanced summary with the original budgets, with overspend and no surplus
\* the overspend figures, and in none of the three any suggested limits.
C5_SuggestsIffOverspendAndSurplus ==
  ret.op = "optimize_budgets" =>
    /\ "suggested_budgets" \in ret.result.keys
         <=> (OptCategories # {} /\ TotalOverspend > 0 /\ TotalSurplus > 0)
    /\ OptCategories = {} => ret.result.keys = {"error"}
    /\ (OptCategories # {} /\ TotalOverspend = 0) =>
         /\ ret.result.keys = {"summary", "original_budgets", "current_spending"}
         /\ DOMAIN ret.result.original_budgets = OptCategories
         /\ \A c \in OptCategories : ret.result.original_budgets[c] = OptLimit(c)
    /\ (OptCategories # {} /\ TotalOverspend > 0 /\ TotalSurplus = 0) =>
         /\ ret.result.keys =
              {"summary", "original_budgets", "current_spending", "overspending"}
         /\ DOMAIN ret.result.overspending = {c \in OptCategories : OptOverspend(c) > 0}
         /\ \A c \in DOMAIN ret.result.overspending :
              ret.result.overspending[c] = OptOverspend(c)

\* The single budget Food: 1000.00 with 1500.00 spent: the overspend 500.00 is
\* returned and no limits are suggested
C5_Witness ==
  /\ ret.op = "optimize_budgets"
  /\ OptCategories = {"Food"}
  /\ OptLimit("Food") = 100000
  /\ OptSpent("Food") = 150000
  /\ ret.result.overspending = [c \in {"Food"} |-> 50000]
  /\ "suggested_budgets" \notin ret.result.keys

\* The redistribution with min(limit - spent, limit * 0.3) taken as it is, in
\* tenths of a hundredth
OptSurplus10(c) ==
  IF OptSpent(c) > OptLimit(c) THEN 0
  ELSE Min(10 * (OptLimit(c) - OptSpent(c)), 3 * OptLimit(c))
TotalSurplus10 == SumOf(OptSurplus10, OptCategories)
UnroundedReduction(c) ==
  IF TotalSurplus10 >= 10 * TotalOverspend THEN RoundDiv(OptSurplus10(c), 10)
  ELSE RoundDiv(OptSurplus10(c) * TotalSurplus10, 100 * TotalOverspend)
UnroundedIncrease(c) ==
  IF TotalSurplus10 >= 10 * TotalOverspend THEN OptOverspend(c)
  ELSE RoundDiv(OptOverspend(c) * TotalSurplus10, 10 * TotalOverspend)

\* C6 as stated: with availableSurplus = min(limit - spent, limit * 0.3) and
\* ratio = min(1, totalSurplus / totalOverspend), a surplus category is
\* suggested its limit minus availableSurplus * ratio rounded to 2 decimals,
\* an overspent one its limit plus overspend * ratio rounded to 2 decimals,
\* every other one its limit.
C6_UnroundedSurplus ==
  (ret.op = "optimize_budgets" /\ "suggested_budgets" \in ret.result.keys) =>
    \A c \in OptCategories :
      ret.result.suggested_budgets[c] =
        IF OptSurplus10(c) > 0 THEN OptLimit(c) - UnroundedReduction(c)
        ELSE IF OptOverspend(c) > 0 THEN OptLimit(c) + UnroundedIncrease(c)
        ELSE OptLimit(c)

RoundedReduction(c) ==
  IF TotalSurplus >= TotalOverspend THEN OptSurplus(c)
  ELSE RoundDiv(OptSurplus(c) * TotalSurplus, TotalOverspend)
RoundedIncrease(c) ==
  IF TotalSurplus >= TotalOverspend THEN OptOverspend(c)
  ELSE RoundDiv(OptOverspend(c) * TotalSurplus, TotalOverspend)

\* C6 amended: the same with availableSurplus = min(limit - spent, limit * 0.3
\* rounded to 2 decimals) and totalSurplus the sum of these rounded figures; a
\* category whose availableSurplus rounds to 0 keeps its limit.
C6_RoundedSurplus ==
  (ret.op = "optimize_budgets" /\ "suggested_budgets" \in ret.result.keys) =>
    /\ DOMAIN ret.result.suggested_budgets = OptCategories
    /\ \A c \in OptCategories :
         ret.result.suggested_budgets[c] =
           IF OptSurplus(c) > 0 THEN OptLimit(c) - RoundedReduction(c)
           ELSE IF OptOverspend(c) > 0 THEN OptLimit(c) + RoundedIncrease(c)
           ELSE OptLimit(c)

\* Monthly budget 150.30, Food 110.12 against 60.12 and Shopping at its limit:
\* the surplus 31.57 covers part of the overspend 50.00; Food is raised,
\* Transport lowered, Shopping kept
C6_Witness ==
  /\ ret.op = "optimize_budgets"
  /\ "suggested_budgets" \in ret.result.keys
  /\ OptLimit("Food") = 6012 /\ OptSpent("Food") = 11012
  /\ OptSpent("Shopping") = OptLimit("Shopping")
  /\ TotalSurplus < TotalOverspend
  /\ ret.result.suggested_budgets["Food"] > OptLimit("Food")
  /\ ret.result.suggested_budgets["Transport"] < OptLimit("Transport")
  /\ ret.result.suggested_budgets["Shopping"] = OptLimit("Shopping")

\* C12: optimize_budgets does not change its input budgets: whenever the
\* result carries original_budgets they are the limits of the user's Budget
\* rows as read before the call, also when suggested limits that differ from
\* them are returned beside them, and the user's Budget rows are after the
\* call what they were before it.
C12_BudgetsNotMutated ==
  ret.op = "optimize_budgets" =>
    /\ {r \in budgets : r.user = ret.user} = ret.rows
    /\ "original_budgets" \in ret.result.keys =>
         /\ DOMAIN ret.result.original_budgets = {r.category : r \in ret.rows}
         /\ \A r \in ret.rows : ret.result.original_budgets[r.category] = r.monthly_limit
    /\ "original_budgets" \notin ret.result.keys => ret.rows = {}

\* A redistribution whose suggested limits differ from the original ones:
\* Food 60.12 is still returned as the original limit beside the raised one
C12_Witness ==
  /\ ret.op = "optimize_budgets"
  /\ "suggested_budgets" \in ret.result.keys
  /\ ret.result.original_budgets["Food"] = 6012
  /\ ret.result.suggested_budgets["Food"] > 6012
  /\ \E c \in DOMAIN ret.result.suggested_budgets :
       ret.result.suggested_budgets[c] < ret.result.original_budgets[c]

\* The sum of the user's expenses of category c dated in the current calendar
\* month: from 00:00 of its first day to the first day of the next month
SpentThisMonth(c) ==
  SumAmounts(expenses,
             {r \in DOMAIN expenses :
                /\ r.user = ret.user /\ r.category = c
                /\ r.date.y = now.y /\ r.date.m = now.m})

\* C14: the spent figure that optimize_budgets compares against a category's
\* limit is the sum of the user's expenses of that category dated within the
\* current calendar month, from 00:00 of its first day on and before the first
\* day of the next month.
C14_SpentIsCurrentMonth ==
  (ret.op = "optimize_budgets" /\ "current_spending" \in ret.result.keys) =>
    \A c \in OptCategories \cup DOMAIN ret.result.current_spending :
      Spent(ret.result.current_spending, c) = SpentThisMonth(c)

\* C26: after a registration the default limits created for the new user
\* (Food, Shopping, Transport, Entertainment, Bills, Other) sum to exactly the
\* user's monthly_budget, and each limit is non-negative.
C26_DefaultLimitsSumToBudget ==
  ret.op = "register" =>
    LET limits == get_user_budgets(budgets, ret.user)
    IN /\ DOMAIN limits = DOMAIN DEFAULT_CATEGORY_PERCENTAGES
       /\ SumValues(limits) = ret.monthly_budget
       /\ \A c \in DOMAIN limits : limits[c] >= 0

\* The categories whose suggested limit differs from the original one
ChangedCategories ==
  {c \in DOMAIN ret.result.suggested_budgets :
     ret.result.suggested_budgets[c] # ret.result.original_budgets[c]}

\* C22: when optimize_budgets suggests limits, the sum of the suggested limits
\* equals the sum of the original limits up to 0.01 for each changed
\* category: what the overspent categories gain is what the surplus
\* categories lose.
C22_TotalBudgetConserved ==
  (ret.op = "optimize_budgets" /\ "suggested_budgets" \in ret.result.keys) =>
    LET diff == SumValues(ret.result.suggested_budgets) - SumValues(ret.result.original_budgets)
    IN diff <= Cardinality(ChangedCategories) /\ -diff <= Cardinality(ChangedCategories)

\* The second run suggests limits again
SecondSuggests ==
  /\ ret.op = "optimize_again"
  /\ "suggested_budgets" \in ret.first.keys
  /\ "suggested_budgets" \in ret.second.keys

-----------------------------------------------------------------------------
(* crud.py: forecasting.  A month is [y, m].  fit is what the fitted model   *)
(* does: [raises |-> TRUE] when ARIMA(...).fit(), forecast(), or              *)
(* LinearRegression().fit(), predict() raises, else [raises |-> FALSE, pred]  *)
(* with pred the value it predicts for every step.                            *)

MonthOf(dt) == [y |-> dt.y, m |-> dt.m]
MonthLess(a, b) == a.y < b.y \/ (a.y = b.y /\ a.m < b.m)

\* monthly: the months of the user's rows, and the sum of a month's amounts
MonthKeys(b, user) == {MonthOf(r.date) : r \in {x \in DOMAIN b : x.user = user}}
MonthAmount(b, user, k) ==
  SumAmounts(b, {r \in DOMAIN b : r.user = user /\ MonthOf(r.date) = k})

\* The decimal digits of n > 0
RECURSIVE DecimalDigits(_)
DecimalDigits(n) == IF n < 10 THEN <<n>> ELSE Append(DecimalDigits(n \div 10), n % 10)

\* dt.strftime("%Y-%m") (crud.py:238) as the code points of its characters
\* relative to "0" ("-" is below every digit).  %Y of a year below 1000 is
\* padded to four digits or not, as the C library and the Python version have
\* it: pads tells which.
StrftimeYearMonth(k, pads) ==
  LET ds == DecimalDigits(k.y)
      year == IF pads THEN [i \in 1..(4 - Len(ds)) |-> 0] \o ds ELSE ds
  IN year \o <<-3>> \o <<k.m \div 10, k.m % 10>>

\* Python's order of two strings: by the first position where they differ, a
\* proper prefix first
RECURSIVE StrLess(_, _)
StrLess(a, b) ==
  IF b = <<>> THEN FALSE
  ELSE IF a = <<>> THEN TRUE
  ELSE IF Head(a) # Head(b) THEN Head(a) < Head(b)
  ELSE StrLess(Tail(a), Tail(b))

\* sorted(monthly.items(), key=lambda x: x[0]) as the history list
\* (crud.py:243-244): the months in the order of their key strings
RECURSIVE SortedMonths(_, _)
SortedMonths(keys, pads) ==
  IF keys = {} THEN <<>>
  ELSE LET k == CHOOSE x \in keys : \A z \in keys :
                  x = z \/ StrLess(StrftimeYearMonth(x, pads), StrftimeYearMonth(z, pads))
       IN <<k>> \o SortedMonths(keys \ {k}, pads)
History(b, user, pads) ==
  LET ks == SortedMonths(MonthKeys(b, user), pads)
  IN [i \in 1..Len(ks) |-> [date |-> ks[i], amount |-> MonthAmount(b, user, ks[i])]]

\* The months a nanosecond timestamp holds: pd.to_datetime(errors="coerce")
\* turns every other key into NaT, and adding a DateOffset past them raises
Representable(k) ==
  /\ k.y > 1677 \/ (k.y = 1677 /\ k.m >= 10)
  /\ k.y < 2262 \/ (k.y = 2262 /\ k.m <= 4)

\* ts.index[-1] after dropna() and sort_index() (crud.py:250-253): dropna
\* drops no row, for no value is missing, and sort_index puts NaT last; None
\* stands for NaT
LastIndex(history) ==
  IF \E i \in 1..Len(history) : ~Representable(history[i].date) THEN None
  ELSE Some(history[Len(history)].date)

\* A month advanced without carrying into the year
AddMonths_NoCarry(k, n) == [y |-> k.y, m |-> k.m + n]

\* index + pd.DateOffset(months=n)
AddMonths(k, n) ==
  [y |-> k.y + (k.m + n - 1) \div 12, m |-> ((k.m + n - 1) % 12) + 1]

\* A choice of the model that fits a line to a single point
ModelFor_FromOnePoint(n) == IF n >= 6 THEN "ARIMA" ELSE IF n >= 1 THEN "LinearRegression" ELSE "none"

\* Which model the length of the series selects (crud.py:259, 266)
ModelFor(n) == IF n >= 6 THEN "ARIMA" ELSE IF n >= 2 THEN "LinearRegression" ELSE "none"

\* Whether the fitting and predicting calls raise: as fit tells, and
\* LinearRegression.predict raises on the empty future_X of months_ahead <= 0
FitRaises(model, months_ahead, fit) ==
  fit.raises \/ (model = "LinearRegression" /\ months_ahead <= 0)

\* An except branch that returns no error field
ExceptReturn_NoError(history, message) ==
  [history |-> history, forecast |-> <<>>, error |-> None]

\* The return of the except branch (crud.py:275-276)
ExceptReturn(history, message) ==
  [history |-> history, forecast |-> <<>>, error |-> Some(message)]

\* forecast_expenses(db, user_id, months_ahead): [history, forecast, error];
\* error is None when the dict holds no "error" key.  fit is what the model
\* library does and pads what strftime does on this build.
forecast_expenses(b, user, months_ahead, fit, pads) ==
  LET history == History(b, user, pads)
      model == ModelFor(Len(history))
      last == LastIndex(history)
      steps == IF months_ahead > 0 THEN months_ahead ELSE 0
  IN IF Len(history) = 0 \/ model = "none"
     THEN [history |-> history, forecast |-> <<>>, error |-> None]
     ELSE IF FitRaises(model, months_ahead, fit)
     THEN ExceptReturn(history, "fit")
     ELSE IF steps > 0 /\ IsNone(last)
     THEN ExceptReturn(history, "NaTType does not support strftime")
     ELSE IF steps > 0 /\ ~Representable(AddMonths(Val(last), steps))
     THEN ExceptReturn(history, "Out of bounds nanosecond timestamp")
     ELSE [history |-> history,
           forecast |-> [i \in 1..steps |->
                           [date |-> AddMonths(Val(last), i), predicted |-> fit.pred]],
           error |-> None]

-----------------------------------------------------------------------------
(* The forecast on imported expenses *)

\* The dates of the imported rows: six consecutive months and a year that a
\* nanosecond timestamp does not hold
ForecastDates ==
  {[y |-> 2024, m |-> 8, d |-> 5, t |-> 0], [y |-> 2024, m |-> 9, d |-> 5, t |-> 0],
   [y |-> 2024, m |-> 10, d |-> 5, t |-> 0], [y |-> 2024, m |-> 11, d |-> 5, t |-> 0],
   [y |-> 2024, m |-> 12, d |-> 5, t |-> 0], [y |-> 2025, m |-> 1, d |-> 1, t |-> 0],
   [y |-> 999, m |-> 1, d |-> 5, t |-> 0]}
MonthsAhead == {0, 3, 3000}
\* What strftime may do on the user's rows: the builds differ only on a year
\* below 1000
PadChoices(user) ==
  IF \E r \in DOMAIN expenses : r.user = user /\ r.date.y < 1000 THEN BOOLEAN ELSE {TRUE}
FitOutcomes == {[raises |-> TRUE, pred |-> 0], [raises |-> FALSE, pred |-> 1250]}
\* The bound on the rows of the Expense table
MaxForecastRows == 6

\* upload_csv of a file of one data row [date, description, 12.50]
ImportDated(user, date) ==
  /\ BagSize(expenses) < MaxForecastRows
  /\ \E r \in {import_csv(Db, user, <<[cols |-> 3, amount_str |-> SPlain, date |-> Some(date)]>>)} :
       /\ expenses' = r.db.expenses
       /\ categories' = r.db.categories
       /\ ret' = [op |-> "csv", user |-> user, status |-> 200, rows |-> 1,
                  imported |-> r.imported, skipped |-> r.skipped, creates |-> r.creates]
  /\ calls' = <<>>
  /\ UNCHANGED <<config, inflight, budgets, users, summaries, chat_history>>

\* forecast_expenses_route (main.py:247-249): one call of forecast_expenses;
\* fit_raised tells whether the fitting or the predicting raised
ForecastExpenses(user, months_ahead, fit, pads) ==
  /\ ret' = [op |-> "forecast_expenses", user |-> user, months_ahead |-> months_ahead,
             pads |-> pads,
             fit_raised |-> /\ ModelFor(Len(History(expenses, user, pads))) # "none"
                            /\ FitRaises(ModelFor(Len(History(expenses, user, pads))),
                                         months_ahead, fit),
             result |-> forecast_expenses(expenses, user, months_ahead, fit, pads)]
  /\ calls' = <<>>
  /\ UNCHANGED <<config, inflight, expenses, categories, budgets, users, summaries, chat_history>>

NextForecast ==
  \/ \E u \in Users, date \in ForecastDates : ImportDated(u, date)
  \/ \E u \in Users, k \in MonthsAhead, fit \in FitOutcomes :
       \E pads \in PadChoices(u) : ForecastExpenses(u, k, fit, pads)

\* The forecast reads neither language model: both are taken as loaded
InitForecast == Init /\ nlp_spacy /\ category_model

SpecForecast == InitForecast /\ [][NextForecast]_vars

\* The rows of the user of the last forecast_expenses call, and their months
FcRows == {r \in DOMAIN expenses : r.user = ret.user}
FcMonths == {<<r.date.y, r.date.m>> : r \in FcRows}
NoErrorField == IsNone(ret.result.error)

\* C7: for a user without expenses forecast_expenses returns an empty history
\* and an empty forecast without an error field, whatever months_ahead is; for
\* a user whose expenses all fall in one calendar month a history of one
\* entry, an empty forecast and no error field.
C7_NoForecastBelowTwoMonths ==
  ret.op = "forecast_expenses" =>
    /\ FcRows = {} =>
         ret.result.history = <<>> /\ ret.result.forecast = <<>> /\ NoErrorField
    /\ Cardinality(FcMonths) = 1 =>
         Len(ret.result.history) = 1 /\ ret.result.forecast = <<>> /\ NoErrorField

\* Two expenses of December 2024, three months asked for, a model that would
\* fit: one history entry of their sum and no forecast
C7_Witness ==
  /\ ret.op = "forecast_expenses"
  /\ BagSize(expenses) = 2
  /\ FcMonths = {<<2024, 12>>}
  /\ ret.months_ahead = 3
  /\ ~ret.fit_raised
  /\ ret.result.history = <<[date |-> [y |-> 2024, m |-> 12], amount |-> 2500]>>
  /\ ret.result.forecast = <<>>

\* The sum of the amounts of the user's rows dated in the month ym
FcMonthTotal(ym) ==
  SumAmounts(expenses, {r \in FcRows : r.date.y = ym.y /\ r.date.m = ym.m})

\* C8: whenever the fitting or the predicting raises, forecast_expenses
\* returns the full history (one entry per month with expenses, holding the
\* month's sum), an empty forecast and an error field.
C8_FitFailureIsReported ==
  (ret.op = "forecast_expenses" /\ ret.fit_raised) =>
    /\ ~NoErrorField
    /\ ret.result.forecast = <<>>
    /\ Len(ret.result.history) = Cardinality(FcMonths)
    /\ \A i \in 1..Len(ret.result.history) :
         /\ <<ret.result.history[i].date.y, ret.result.history[i].date.m>> \in FcMonths
         /\ ret.result.history[i].amount = FcMonthTotal(ret.result.history[i].date)
    /\ \A i, j \in 1..Len(ret.result.history) :
         i # j => ret.result.history[i].date # ret.result.history[j].date

\* ARIMA raised on a series of six months
C8_Witness ==
  /\ ret.op = "forecast_expenses"
  /\ ret.fit_raised
  /\ ret.months_ahead = 3
  /\ Len(ret.result.history) = 6
  /\ ret.result.error = Some("fit")

\* C18: when a month of the user's expenses lies outside the range of a
\* nanosecond timestamp, forecast_expenses returns the history, an empty
\* forecast and the error "Invalid date range".
C18_RangeErrorReported ==
  (/\ ret.op = "forecast_expenses"
   /\ \E ym \in FcMonths : ~Representable([y |-> ym[1], m |-> ym[2]])) =>
    /\ ret.result.forecast = <<>>
    /\ ret.result.error = Some("Invalid date range")
    /\ Len(ret.result.history) = Cardinality(FcMonths)

\* C13: the history returned by forecast_expenses has exactly one entry per
\* calendar month in which the user has an expense and none for another month,
\* each entry's amount is the sum of the user's amounts dated in that month,
\* and the entries are strictly increasing by year-month.
C13_HistoryPerMonthAscending ==
  ret.op = "forecast_expenses" =>
    /\ Len(ret.result.history) = Cardinality(FcMonths)
    /\ \A i \in 1..Len(ret.result.history) :
         /\ <<ret.result.history[i].date.y, ret.result.history[i].date.m>> \in FcMonths
         /\ ret.result.history[i].amount = FcMonthTotal(ret.result.history[i].date)
    /\ \A i, j \in 1..Len(ret.result.history) :
         i < j => MonthLess(ret.result.history[i].date, ret.result.history[j].date)

\* The month i months after ym, by the count of months since year 0
Advanced(ym, i) ==
  [y |-> (12 * ym.y + (ym.m - 1) + i) \div 12, m |-> ((12 * ym.y + (ym.m - 1) + i) % 12) + 1]
LastHistoryMonth == ret.result.history[Len(ret.result.history)].date
LabelsAdvanceLastMonth ==
  /\ Len(ret.result.forecast) = ret.months_ahead
  /\ \A i \in 1..Len(ret.result.forecast) :
       /\ ret.result.forecast[i].date = Advanced(LastHistoryMonth, i)
       /\ MonthLess(LastHistoryMonth, ret.result.forecast[i].date)
  /\ \A i, j \in 1..Len(ret.result.forecast) :
       i < j => MonthLess(ret.result.forecast[i].date, ret.result.forecast[j].date)

\* C9 as stated: with at least 2 monthly points and a fit that succeeded, the
\* forecast has exactly months_ahead entries, the i-th labelled with the last
\* observed month advanced by i months.
C9_FitSucceeded ==
  (ret.op = "forecast_expenses" /\ Len(ret.result.history) >= 2 /\ ~ret.fit_raised)
    => LabelsAdvanceLastMonth

\* C9 amended: with at least 2 monthly points and a result without an error
\* field, the forecast has exactly months_ahead entries, the i-th labelled with
\* the last observed month advanced by i months, December rolling over to
\* January of the next year; the labels increase strictly and are all later
\* than the last history month.
C9_NoErrorReported ==
  (ret.op = "forecast_expenses" /\ Len(ret.result.history) >= 2 /\ NoErrorField)
    => LabelsAdvanceLastMonth

\* The linear trend over November and December 2024, three months ahead:
\* 2025-01, 2025-02, 2025-03
C9_Witness ==
  /\ ret.op = "forecast_expenses"
  /\ FcMonths = {<<2024, 11>>, <<2024, 12>>}
  /\ ret.months_ahead = 3
  /\ NoErrorField
  /\ Len(ret.result.forecast) = 3
  /\ ret.result.forecast[1].date = [y |-> 2025, m |-> 1]
  /\ ret.result.forecast[3].date = [y |-> 2025, m |-> 3]

-----------------------------------------------------------------------------
(* get_monthly_summary as the steps that other calls can come between: the   *)
(* query over the month's expenses, the query for the stored summary row,    *)
(* and the write with its commit.                                            *)

SummaryUsers == {1, 2}
SummaryAmounts == {1250}
MaxSummaryExpenses == 1

\* No call of the event loop is between its first and its last statement
LoopFree == \A k \in 1..MaxInFlight : inflight[k].pc # "idle" => inflight[k].caller \notin LoopCallers

\* An expense stored while no summary call is in flight
StoreForSummary(user, amount) ==
  /\ inflight = NoCalls
  /\ BagSize(expenses) < MaxSummaryExpenses
  /\ \E made \in {create_expense(Db, user, amount, Some("Food"), None)} :
       /\ expenses' = made.db.expenses
       /\ categories' = made.db.categories
  /\ ret' = [op |-> "store"]
  /\ calls' = <<>>
  /\ UNCHANGED <<config, inflight, budgets, users, summaries, chat_history>>

\* get_monthly_summary up to its first query (crud.py:490-499): the month's
\* total as the Expense table holds it now
StartSummary(k, caller, user) ==
  /\ inflight[k].pc = "idle"
  /\ caller \in LoopCallers => LoopFree
  /\ inflight' = [inflight EXCEPT ![k] = [pc |-> "totalled", caller |-> caller, user |-> user,
                                          total |-> MonthTotal(expenses, user)]]
  /\ ret' = [op |-> "summary_started", user |-> user]
  /\ calls' = <<"get_monthly_summary">>
  /\ UNCHANGED <<config, expenses, categories, budgets, users, summaries, chat_history>>

\* The query of create_or_update_monthly_summary (crud.py:447-451)
FindSummary(k) ==
  /\ inflight[k].pc = "totalled"
  /\ inflight' = [inflight EXCEPT ![k] =
                    [pc |-> "queried", caller |-> inflight[k].caller, user |-> inflight[k].user,
                     total |-> inflight[k].total,
                     existing |-> FirstSummaryRow(summaries, inflight[k].user, now.y, now.m)]]
  /\ ret' = [op |-> "summary_queried", user |-> inflight[k].user]
  /\ calls' = <<"create_or_update_monthly_summary">>
  /\ UNCHANGED <<config, expenses, categories, budgets, users, summaries, chat_history>>

\* The write, the commit and the return (crud.py:453-469, 509-519)
CommitSummary(k) ==
  /\ inflight[k].pc = "queried"
  /\ summaries' = WriteSummary(summaries, inflight[k].existing, inflight[k].user,
                               now.y, now.m, inflight[k].total)
  /\ inflight' = [inflight EXCEPT ![k] = Idle]
  /\ ret' = [op |-> "get_monthly_summary", user |-> inflight[k].user,
             caller |-> inflight[k].caller, total |-> inflight[k].total,
             inserted |-> inflight[k].existing = 0]
  /\ calls' = <<"db.commit">>
  /\ UNCHANGED <<config, expenses, categories, budgets, users, chat_history>>

NextSummary ==
  \/ \E user \in SummaryUsers, amount \in SummaryAmounts : StoreForSummary(user, amount)
  \/ \E k \in 1..MaxInFlight, caller \in Callers, user \in SummaryUsers :
       StartSummary(k, caller, user)
  \/ \E k \in 1..MaxInFlight : FindSummary(k)
  \/ \E k \in 1..MaxInFlight : CommitSummary(k)

SpecSummary == InitForecast /\ [][NextSummary]_vars

\* C23: under any interleaving of get_monthly_summary calls for the same user
\* (the hourly job, GET /monthly_summary requests, chat budget queries) the
\* MonthlySummary table holds at most one row per (user, year, month), and
\* once the last call has returned that row's total_spent is the sum of the
\* user's expenses of the month.
C23_OneSummaryRowPerMonth ==
  /\ \A i, j \in 1..Len(summaries) :
       (/\ summaries[i].user = summaries[j].user
        /\ summaries[i].year = summaries[j].year
        /\ summaries[i].month = summaries[j].month) => i = j
  /\ (ret.op = "get_monthly_summary" /\ inflight = NoCalls) =>
       \A i \in SummaryRowsOf(summaries, ret.user, now.y, now.m) :
         summaries[i].total_spent = MonthTotal(expenses, ret.user)

====
